---- MODULE Spec2Model ----
(***************************************************************************)
(* A model of pybamm/expression_tree/operations/evaluate_julia.py: the     *)
(* lowering of an expression DAG to three tables (find_symbols, to_julia)  *)
(* and the emission of the Julia procedure text (get_julia_function).      *)
(* Text is modelled as text: every Python string is a TLA+ string and the  *)
(* string methods the code uses (in, replace, split, startswith, slices)   *)
(* are operators computed the way Python computes them.                    *)
(***************************************************************************)
EXTENDS Integers, Sequences, FiniteSets, TLC

(***************************************************************************)
(* Python string methods                                                   *)
(***************************************************************************)

\* the least element of a non-empty set of integers
SetMin(S) == CHOOSE m \in S : \A k \in S : m <= k

\* s[a:] and s[:b], s[a:b] of Python for 0 <= a, with 1-based SubSeq
Slice(s, a, b) == IF b <= a THEN "" ELSE SubSeq(s, a + 1, b)

\* p in s
Contains(s, p) ==
    \E i \in 1..(Len(s) - Len(p) + 1) : SubSeq(s, i, i + Len(p) - 1) = p

\* s.startswith(p)
StartsWith(s, p) == Len(p) <= Len(s) /\ SubSeq(s, 1, Len(p)) = p

\* s.find(p, from) as a 1-based position, 0 when there is none
FindFrom(s, p, from) ==
    LET hits == {i \in from..(Len(s) - Len(p) + 1) : SubSeq(s, i, i + Len(p) - 1) = p}
    IN  IF hits = {} THEN 0 ELSE SetMin(hits)

\* s.replace(old, new): every non-overlapping occurrence, left to right
RECURSIVE ReplaceFrom(_, _, _, _)
ReplaceFrom(s, old, new, from) ==
    LET i == FindFrom(s, old, from)
    IN  IF i = 0 THEN SubSeq(s, from, Len(s))
        ELSE SubSeq(s, from, i - 1) \o new \o ReplaceFrom(s, old, new, i + Len(old))

Replace(s, old, new) == IF old = "" THEN s ELSE ReplaceFrom(s, old, new, 1)

\* s.split(sep), a sequence of strings
RECURSIVE SplitFrom(_, _, _)
SplitFrom(s, sep, from) ==
    LET i == FindFrom(s, sep, from)
    IN  IF i = 0 THEN <<SubSeq(s, from, Len(s))>>
        ELSE <<SubSeq(s, from, i - 1)>> \o SplitFrom(s, sep, i + Len(sep))

Split(s, sep) == SplitFrom(s, sep, 1)

\* sep.join(parts)
RECURSIVE Join(_, _)
Join(parts, sep) ==
    IF parts = <<>> THEN ""
    ELSE IF Len(parts) = 1 THEN parts[1]
    ELSE parts[1] \o sep \o Join(Tail(parts), sep)

DigitChars == <<"0", "1", "2", "3", "4", "5", "6", "7", "8", "9">>

IsDigit(c) == \E d \in 1..10 : DigitChars[d] = c

DigitVal(c) == (CHOOSE d \in 1..10 : DigitChars[d] = c) - 1

\* "0" * n
RECURSIVE Zeros(_)
Zeros(n) == IF n <= 0 THEN "" ELSE "0" \o Zeros(n - 1)

\* " " * n
RECURSIVE Spaces(_)
Spaces(n) == IF n <= 0 THEN "" ELSE " " \o Spaces(n - 1)

\* "{:05d}".format(n): the sign counts in the width of 5
Format05d(n) ==
    IF n < 0 THEN "-" \o Zeros(4 - Len(ToString(-n))) \o ToString(-n)
    ELSE Zeros(5 - Len(ToString(n))) \o ToString(n)

\* int(s) of Python for an optional sign and decimal digits; ok is FALSE where
\* Python raises ValueError (the empty string, a letter, a point)
RECURSIVE DigitsValue(_, _)
DigitsValue(s, acc) ==
    IF s = "" THEN acc ELSE DigitsValue(Tail(s), 10 * acc + DigitVal(Head(s)))

AllDigits(s) == s # "" /\ \A i \in 1..Len(s) : IsDigit(SubSeq(s, i, i))

PyInt(s) ==
    IF s # "" /\ Head(s) = "-" /\ AllDigits(Tail(s))
    THEN [ok |-> TRUE, val |-> 0 - DigitsValue(Tail(s), 0)]
    ELSE IF AllDigits(s) THEN [ok |-> TRUE, val |-> DigitsValue(s, 0)]
    ELSE [ok |-> FALSE, val |-> 0]

(***************************************************************************)
(* Floating-point values.  A value is a decimal: a sign, an integer part   *)
(* and its fraction digits, the digits repr gives the double.  The values  *)
(* of the model are below 2^31 in magnitude, and the arrays of the model   *)
(* stay in the range in which numpy prints positionally (no exponent).     *)
(***************************************************************************)
Dec(neg, ip, fd) == [neg |-> neg, ip |-> ip, fd |-> fd]

\* the fraction digits without their trailing zeros
StripZeros(fd) ==
    SubSeq(fd, 1, Cardinality({i \in 1..Len(fd) : \E j \in i..Len(fd) : fd[j] # 0}))

\* fd + one unit in its last place: <<carry out, digits>>
RECURSIVE IncDigits(_)
IncDigits(fd) ==
    IF fd = <<>> THEN <<1, fd>>
    ELSE LET n == Len(fd) IN
         IF fd[n] < 9 THEN <<0, [fd EXCEPT ![n] = fd[n] + 1]>>
         ELSE LET r == IncDigits(SubSeq(fd, 1, n - 1)) IN <<r[1], Append(r[2], 0)>>

(***************************************************************************)
(* Binary floating point.  The code holds every value as an IEEE double,   *)
(* the double nearest to the decimal text, and rounds in binary.  Natural  *)
(* numbers that do not fit an integer of the model are sequences of        *)
(* decimal digits, most significant first, without leading zeros.          *)
(***************************************************************************)
RECURSIVE BigNorm(_)
BigNorm(a) == IF a # <<>> /\ Head(a) = 0 THEN BigNorm(Tail(a)) ELSE a

\* a < b
BigLess(a, b) ==
    \/ Len(a) < Len(b)
    \/ /\ Len(a) = Len(b)
       /\ \E i \in 1..Len(a) : a[i] < b[i] /\ \A j \in 1..(i - 1) : a[j] = b[j]

\* the decimal digits of a natural number of the model
IntDigits(n) ==
    LET text == ToString(n) IN [i \in 1..Len(text) |-> DigitVal(SubSeq(text, i, i))]

\* a * c + carry for a factor c of at most 2^26, two digits of a at a time
RECURSIVE BigTimes(_, _, _)
BigTimes(a, c, carry) ==
    IF carry = 0 /\ a = <<>> THEN <<>>
    ELSE IF a = <<>> THEN IntDigits(carry)
    ELSE LET n == Len(a)
             v == a[n] * c + carry
             w == a[n - 1] * c + v \div 10
         IN  IF n = 1 THEN Append(BigTimes(<<>>, c, v \div 10), v % 10)
             ELSE BigTimes(SubSeq(a, 1, n - 2), c, w \div 10) \o <<w % 10, v % 10>>

\* a * 2^n, 26 bits at a time
RECURSIVE BigShiftLeft(_, _)
BigShiftLeft(a, n) ==
    IF n <= 0 THEN a
    ELSE IF n >= 26 THEN BigShiftLeft(BigTimes(a, 2^26, 0), n - 26)
    ELSE BigTimes(a, 2^n, 0)

\* a divided by a divisor c of at most 2^26: <<the digits of the quotient, the rest>>
RECURSIVE BigDivFrom(_, _, _)
BigDivFrom(a, c, rem) ==
    IF a = <<>> THEN <<a, rem>>
    ELSE LET cur == 10 * rem + Head(a)
             r   == BigDivFrom(Tail(a), c, cur % c)
         IN  <<<<cur \div c>> \o r[1], r[2]>>

\* a \div 2^n, 26 bits at a time; sticky tells whether a bit shifted out was set
RECURSIVE BigShiftRight(_, _)
Sticky(rest, lost) == [q |-> rest.q, sticky |-> rest.sticky \/ lost]

ShiftedOn(d, n) == Sticky(BigShiftRight(BigNorm(d[1]), n - 26), d[2] # 0)

BigShiftRight(a, n) ==
    IF n <= 0 THEN [q |-> a, sticky |-> FALSE]
    ELSE ShiftedOn(BigDivFrom(a, IF n >= 26 THEN 2^26 ELSE 2^n, 0), n)

BigOdd(a) == a # <<>> /\ a[Len(a)] % 2 = 1

BigInc(a) == LET r == IncDigits(a) IN IF r[1] = 1 THEN <<1>> \o r[2] ELSE r[2]

ZeroDigits(n) == IF n <= 0 THEN <<>> ELSE [i \in 1..n |-> 0]

\* a / 2^n rounded to the nearest integer, ties to even: h is a / 2^(n-1) and q
\* its half
NearestHalf(h, q) == IF BigOdd(h.q) /\ (h.sticky \/ BigOdd(q)) THEN BigInc(q) ELSE q

Halved(h) == NearestHalf(h, BigShiftRight(h.q, 1).q)

RoundShift(a, n) ==
    IF n <= 0 THEN BigShiftLeft(a, 0 - n) ELSE Halved(BigShiftRight(a, n - 1))

\* the integer a sequence of digits writes
RECURSIVE DigitsInt(_, _)
DigitsInt(a, acc) == IF a = <<>> THEN acc ELSE DigitsInt(Tail(a), 10 * acc + Head(a))

\* the number of bits of a natural number
RECURSIVE IntBitLen(_)
IntBitLen(n) == IF n = 0 THEN 0 ELSE 1 + IntBitLen(n \div 2)

RECURSIVE BitLen(_)
BitLen(a) ==
    IF BigLess(a, IntDigits(2^26)) THEN IntBitLen(DigitsInt(a, 0))
    ELSE 26 + BitLen(BigShiftRight(a, 26).q)

\* the least and the first excluded significand of a double: 2^52 and 2^53
TwoTo52 == BigShiftLeft(<<1>>, 52)
TwoTo53 == BigShiftLeft(<<1>>, 53)

\* a half, as the digits of a rest r
HalfOf(r) == [i \in 1..Len(r) |-> IF i = 1 THEN 5 ELSE 0]

IsExact(r) == \A i \in 1..Len(r) : r[i] = 0

AboveHalf(r) ==
    \E i \in 1..Len(r) : r[i] > HalfOf(r)[i] /\ \A j \in 1..(i - 1) : r[j] = HalfOf(r)[j]

\* the significand q with the rest r (a fraction of one unit) is rounded up: to the
\* nearest, ties to even
RoundsUp(q, r) == ~IsExact(r) /\ (AboveHalf(r) \/ (r = HalfOf(r) /\ BigOdd(q)))

\* a significand rounded up to 2^53 is 2^52 at the next exponent
Normal(m, s, bias) == [m |-> IF m = TwoTo53 THEN TwoTo52 ELSE m,
                       s |-> IF m = TwoTo53 THEN s - 1 ELSE s,
                       bias |-> bias]

Nearest(q, r, s) ==
    Normal(IF RoundsUp(q, r) THEN BigInc(q) ELSE q, s,
           IF IsExact(r) THEN 0 ELSE IF RoundsUp(q, r) THEN 1 ELSE -1)

\* N holds the digits of D * 2^s, the last k of them behind the point
Significand(N, k, s) ==
    Nearest(SubSeq(N, 1, Len(N) - k), SubSeq(N, Len(N) - k + 1, Len(N)), s)

ScaledBy(D, k, s) == Significand(BigShiftLeft(D, s), k, s)

AtLeast52(D, k, s) ==
    ScaledBy(D, k, IF BigLess(BigShiftLeft(D, s), TwoTo52 \o ZeroDigits(k)) THEN s + 1 ELSE s)

Below53(D, k, s) ==
    AtLeast52(D, k, IF BigLess(BigShiftLeft(D, s), TwoTo53 \o ZeroDigits(k)) THEN s ELSE s - 1)

\* the double nearest to D / 10^k
DoubleOf(D, k) == Below53(D, k, 52 + BitLen(<<1>> \o ZeroDigits(k)) - BitLen(D))

\* the double nearest to the magnitude of a decimal that is not zero: m / 2^s with
\* 2^52 <= m < 2^53, and on which side of the decimal it lies (bias 1: above)
NearestDouble(v) == DoubleOf(BigNorm(IntDigits(v.ip) \o v.fd), Len(v.fd))

IsZero(v) == v.ip = 0 /\ StripZeros(v.fd) = <<>>

\* the sign of (the double of a decimal) - (the decimal), in magnitude
Bias(v) == IF IsZero(v) THEN 0 ELSE NearestDouble(v).bias

\* a * 5^n, eleven factors at a time
RECURSIVE BigTimes5(_, _)
BigTimes5(a, n) ==
    IF n <= 0 THEN a
    ELSE IF n >= 11 THEN BigTimes5(BigTimes(a, 5^11, 0), n - 11)
    ELSE BigTimes(a, 5^n, 0)

\* the decimal that the digits P, the last s of them decimals, write
Scaled(P, s) ==
    Dec(FALSE, DigitsInt(SubSeq(P, 1, Len(P) - s), 0),
        StripZeros(SubSeq(P, Len(P) - s + 1, Len(P))))

\* the decimal F / 10^s
Over(F, s) == Scaled(ZeroDigits(s + 1 - Len(F)) \o F, s)

\* the decimal E / 10^s cut to its first c digits, the last of them one more if up
CutDigits(E, s, c, up) ==
    Over((IF up THEN BigInc(SubSeq(E, 1, c)) ELSE SubSeq(E, 1, c))
             \o ZeroDigits(Len(E) - c), s)

SameDouble(y, m, s) == y.m = m /\ y.s = s

\* float(repr) of the decimal v is the double m / 2^s
ReadsAs(v, m, s) == ~IsZero(v) /\ SameDouble(NearestDouble(v), m, s)

\* repr of the double m / 2^s: the decimal of the fewest digits that reads back as
\* this double, the nearest of them; E holds the digits of the exact value
RECURSIVE ShortestFrom(_, _, _, _)
NearOrFar(near, far, E, m, s, c) ==
    IF ReadsAs(near, m, s) THEN near
    ELSE IF ReadsAs(far, m, s) THEN far
    ELSE ShortestFrom(E, m, s, c + 1)

ShortestFrom(E, m, s, c) ==
    IF c >= Len(E) THEN CutDigits(E, s, Len(E), FALSE)
    ELSE NearOrFar(CutDigits(E, s, c, E[c + 1] >= 5), CutDigits(E, s, c, E[c + 1] < 5),
                   E, m, s, c)

ShortestRepr(m, s) == ShortestFrom(BigTimes5(m, s), m, s, 1)

ReprOf(y, neg) == [ShortestRepr(y.m, y.s) EXCEPT !.neg = neg]

\* the double nearest to n / 10^d as repr writes it, r being the decimal n / 10^d:
\* a quotient of at most 15 digits is the repr of its double
Divided(n, r, neg) ==
    IF Len(n) <= 15 THEN [r EXCEPT !.neg = neg] ELSE ReprOf(NearestDouble(r), neg)

DividedBy(n, d, neg) == Divided(n, Over(n, d), neg)

\* the double m / 2^s times 10^d, rounded to a double (the digits P of m * 10^d
\* lose their last j bits), rounded to the nearest integer, ties to even
Rint(P, s, j) == RoundShift(RoundShift(P, j), s - j)

Times(P, s) == Rint(P, s, IF BitLen(P) > 53 THEN BitLen(P) - 53 ELSE 0)

RoundDouble(x, d, neg) == DividedBy(Times(x.m \o ZeroDigits(d), x.s), d, neg)

\* numpy.round(value, decimals=d): the double is multiplied by 10^d (the product
\* is rounded to a double), rounded to the nearest integer, ties to even, and
\* divided by 10^d (the quotient is rounded to a double).  A value of at most d
\* decimals and 15 digits comes back unchanged.
RoundDec(v, d) ==
    IF IsZero(v) THEN v
    ELSE IF Len(StripZeros(v.fd)) <= d /\ Len(BigNorm(IntDigits(v.ip))) + d <= 15 THEN v
    ELSE RoundDouble(NearestDouble(v), d, v.neg)

\* a + b of two digit sequences of one length, carry included
RECURSIVE BigAddFrom(_, _, _)
BigAddFrom(a, b, carry) ==
    IF a = <<>> THEN (IF carry = 0 THEN <<>> ELSE <<carry>>)
    ELSE LET n == Len(a)
             v == a[n] + b[n] + carry
         IN  Append(BigAddFrom(SubSeq(a, 1, n - 1), SubSeq(b, 1, n - 1), v \div 10), v % 10)

BigAdd(a, b) ==
    BigAddFrom(ZeroDigits(Len(b) - Len(a)) \o a, ZeroDigits(Len(a) - Len(b)) \o b, 0)

\* a * (hi * 2^26 + lo)
BigTimesParts(a, hi, lo) ==
    BigNorm(BigAdd(BigShiftLeft(BigTimes(a, hi, 0), 26), BigTimes(a, lo, 0)))

BigTimesSplit(a, parts) == BigTimesParts(a, DigitsInt(BigNorm(parts[1]), 0), parts[2])

\* a * m for a significand m below 2^53
BigProduct(a, m) == BigTimesSplit(a, BigDivFrom(m, 2^26, 0))

\* the double nearest to P / 2^s, P having the given number of bits
DoubleFrom(P, s, bits) == Normal(RoundShift(P, bits - 53), s - (bits - 53), 0)

\* 1. / 10**d as a double
Reciprocal(d) == NearestDouble(Dec(FALSE, 0, ZeroDigits(d - 1) \o <<1>>))

\* the integer n times the double c, rounded to a double, as repr writes it
TimesDouble(P, c, neg) == ReprOf(DoubleFrom(P, c.s, BitLen(P)), neg)

MulScalar(n, c, neg) ==
    IF n = <<>> THEN Dec(neg, 0, <<>>) ELSE TimesDouble(BigProduct(n, c.m), c, neg)

RoundSparseDouble(x, d, neg) ==
    MulScalar(BigNorm(Times(x.m \o ZeroDigits(d), x.s)), Reciprocal(d), neg)

\* numpy.round(value, decimals=d) of an entry of a scipy sparse matrix: the matrix
\* is multiplied by 10^d, rounded to the nearest integers by its rint, and divided
\* by 10^d, which scipy does by multiplying with the double 1. / 10^d; the entry
\* is the product, rounded to a double, and not the correctly rounded quotient
RoundSparseDec(v, d) ==
    IF IsZero(v) THEN v ELSE RoundSparseDouble(NearestDouble(v), d, v.neg)

\* the digits numpy prints for a value at a precision: the shortest digits of the
\* double cut at d decimals, the cut rounded by the exact value of the double
TieUp(bias, last) == bias > 0 \/ (bias = 0 /\ last % 2 = 1)

CutDec(v, d) ==
    IF Len(v.fd) <= d THEN v
    ELSE LET keep == SubSeq(v.fd, 1, d)
             rest == SubSeq(v.fd, d + 1, Len(v.fd))
             last == IF d = 0 THEN v.ip % 10 ELSE keep[d]
             tie  == rest[1] = 5 /\ StripZeros(Tail(rest)) = <<>>
             up   == \/ rest[1] > 5
                     \/ rest[1] = 5 /\ ~tie
                     \/ tie /\ TieUp(Bias(v), last)
             inc  == IncDigits(keep)
         IN  IF up THEN Dec(v.neg, v.ip + inc[1], StripZeros(inc[2]))
             ELSE Dec(v.neg, v.ip, StripZeros(keep))

RECURSIVE DigitsText(_)
DigitsText(fd) == IF fd = <<>> THEN "" ELSE ToString(Head(fd)) \o DigitsText(Tail(fd))

\* the sign of a double is printed for every value, the negative zero included
SignText(v) == IF v.neg THEN "-" ELSE ""

\* the number of zeros a sequence of digits starts with
RECURSIVE LeadingZeros(_)
LeadingZeros(fd) == IF fd # <<>> /\ Head(fd) = 0 THEN 1 + LeadingZeros(Tail(fd)) ELSE 0

\* str(x) of a Python float or a numpy.float64: the shortest digits, at least one;
\* a value below 0.0001 is written with an exponent of at least two digits
PyStrFloat(v) ==
    LET fd == StripZeros(v.fd)
        z  == LeadingZeros(fd)
        e  == ToString(z + 1)
    IN  IF v.ip = 0 /\ fd # <<>> /\ z >= 4
        THEN SignText(v) \o ToString(fd[z + 1])
                \o (IF Len(fd) > z + 1 THEN "." \o DigitsText(SubSeq(fd, z + 2, Len(fd)))
                    ELSE "")
                \o "e-" \o (IF Len(e) < 2 THEN "0" \o e ELSE e)
        ELSE SignText(v) \o ToString(v.ip) \o "."
                \o (IF fd = <<>> THEN "0" ELSE DigitsText(fd))

(***************************************************************************)
(* numpy.array2string under the process-wide print options.  Every element *)
(* is printed with the shortest digits that identify it, at most           *)
(* `precision` of them after the point, trailing zeros trimmed, and padded *)
(* with blanks to the widest integer part and the widest fraction.  A     *)
(* line is broken at `linewidth`.  The arrays of the model are shorter     *)
(* than `threshold`, above which numpy prints "..." for the middle.        *)
(***************************************************************************)
SeqMax(ns) == IF ns = <<>> THEN 0 ELSE CHOOSE m \in {ns[i] : i \in 1..Len(ns)} :
                                           \A i \in 1..Len(ns) : ns[i] <= m

SignedInt(r) == SignText(r) \o ToString(r.ip)

NpIntPart(v, precision) == SignedInt(CutDec(v, precision))

NpFracPart(v, precision) == DigitsText(StripZeros(CutDec(v, precision).fd))

PaddedTexts(ints, fracs, pad_l, pad_r) ==
    [i \in 1..Len(ints) |->
        Spaces(pad_l - Len(ints[i])) \o ints[i] \o "." \o fracs[i]
            \o Spaces(pad_r - Len(fracs[i]))]

PartTexts(ints, fracs) ==
    PaddedTexts(ints, fracs, SeqMax([i \in 1..Len(ints) |-> Len(ints[i])]),
                SeqMax([i \in 1..Len(fracs) |-> Len(fracs[i])]))

NpFloatTexts(vals, precision) ==
    PartTexts([i \in 1..Len(vals) |-> NpIntPart(vals[i], precision)],
              [i \in 1..Len(vals) |-> NpFracPart(vals[i], precision)])

NpIntTexts(ns) ==
    LET texts == [i \in 1..Len(ns) |-> ToString(ns[i])]
        width == SeqMax([i \in 1..Len(ns) |-> Len(texts[i])])
    IN  [i \in 1..Len(ns) |-> Spaces(width - Len(texts[i])) \o texts[i]]

\* numpy's default linewidth
LineWidth == 75

\* s.rstrip() of blanks
RECURSIVE RStrip(_)
RStrip(s) ==
    IF s # "" /\ SubSeq(s, Len(s), Len(s)) = " " THEN RStrip(SubSeq(s, 1, Len(s) - 1))
    ELSE s

\* numpy's _extendLine and the separator behind the word: a word that would make
\* the line longer than elem_width starts a new line, unless the line holds the
\* indent alone; st holds the lines that are full (s) and the line being filled
ExtendLine(st, word, is_last, separator, hanging_indent, elem_width) ==
    LET needs_wrap == /\ Len(st.line) + Len(word) > elem_width
                      /\ Len(st.line) > Len(hanging_indent)
        line == (IF needs_wrap THEN hanging_indent ELSE st.line) \o word
    IN  [s    |-> IF needs_wrap THEN st.s \o RStrip(st.line) \o "\n" ELSE st.s,
         line |-> IF is_last THEN line ELSE line \o separator]

\* numpy's _formatArray on the last axis, for the words lo..hi in their order; the
\* first half is laid out before the second half is begun
RECURSIVE ExtendLines(_, _, _, _, _, _, _)
ExtendLines(words, lo, hi, st, separator, hanging_indent, elem_width) ==
    IF lo > hi THEN st
    ELSE IF lo = hi
    THEN ExtendLine(st, words[lo], lo = Len(words), separator, hanging_indent, elem_width)
    ELSE LET mid  == (lo + hi) \div 2
             left == ExtendLines(words, lo, mid, st, separator, hanging_indent, elem_width)
         IN  IF Len(left.line) >= 0
             THEN ExtendLines(words, mid + 1, hi, left, separator, hanging_indent,
                              elem_width)
             ELSE st

\* the lines in brackets, without the indent of the first
Bracketed(st, hanging_indent) ==
    "[" \o SubSeq(st.s \o st.line, Len(hanging_indent) + 1, Len(st.s) + Len(st.line)) \o "]"

\* one row in brackets; curr_width is the linewidth less the closing brackets
FormatRow(words, separator, hanging_indent, curr_width) ==
    Bracketed(ExtendLines(words, 1, Len(words), [s |-> "", line |-> hanging_indent],
                          separator, hanging_indent,
                          curr_width - (IF Len(RStrip(separator)) > 1
                                        THEN Len(RStrip(separator)) ELSE 1)),
              hanging_indent)

\* np.array2string(a, separator=",") of a one-dimensional float array
NpArray2String(vals, separator, precision) ==
    FormatRow(NpFloatTexts(vals, precision), separator, " ", LineWidth)

\* np.array2string(a, separator=",") of a one-dimensional int array
NpIntArray2String(ns, separator) == FormatRow(NpIntTexts(ns), separator, " ", LineWidth)

\* the rows of a matrix as one sequence, row by row (value.flatten())
RECURSIVE Flatten(_)
Flatten(rows) == IF rows = <<>> THEN <<>> ELSE Head(rows) \o Flatten(Tail(rows))

\* str(a) of a two-dimensional float array: "[[1. 2.]\n [3. 4.]]"
NpMatrixStr(rows, precision) ==
    LET ncols == Len(rows[1])
        texts == NpFloatTexts(Flatten(rows), precision)
        row(r) == FormatRow(SubSeq(texts, (r - 1) * ncols + 1, r * ncols), " ", "  ",
                            LineWidth - 1)
    IN  "[" \o Join([r \in 1..Len(rows) |-> row(r)], "\n ") \o "]"

\* decimals of numpy.round in find_symbols
RoundDecimals == 11

\* the precision find_symbols sets for printing
SparsePrintPrecision == 20

\* numpy.round(a, decimals=11) of an array, element by element
RoundRows(rows) ==
    [r \in 1..Len(rows) |-> [c \in 1..Len(rows[r]) |-> RoundDec(rows[r][c], RoundDecimals)]]

(***************************************************************************)
(* Expression DAG nodes.  A DAG is an arena: a sequence of nodes whose     *)
(* children are positions in the sequence, so that a node referenced from  *)
(* two parents is one node with one id (pybamm's Symbol.id).               *)
(***************************************************************************)
NoVal == [cls |-> "none", num |-> Dec(FALSE, 0, <<>>), rows |-> <<>>, trip |-> <<>>,
          m |-> 0, n |-> 0]

\* evaluate() gives a Python number
Num(d) == [NoVal EXCEPT !.cls = "number", !.num = d]

\* evaluate() gives a dense numpy array, rows of columns
Arr(rows) == [NoVal EXCEPT !.cls = "array", !.rows = rows, !.m = Len(rows),
                           !.n = Len(rows[1])]

\* evaluate() gives a scipy sparse matrix; trip is scipy.sparse.find(value), 0-based
Sparse(trip, m, n) == [NoVal EXCEPT !.cls = "sparse", !.trip = trip, !.m = m, !.n = n]

\* shape0 = 0 stands for symbol.shape == (), otherwise it is symbol.shape[0]
Node(kind, id, ch, name, shape0) ==
    [kind |-> kind, id |-> id, ch |-> ch, name |-> name, shape0 |-> shape0,
     val |-> NoVal, start |-> 0, stop |-> 0, mask |-> <<>>,
     npts |-> 1, cslices |-> <<>>, slices |-> <<>>]

Scalar(id, d)        == [Node("Scalar", id, <<>>, "", 0) EXCEPT !.val = Num(d)]
Vector(id, col)      == [Node("Vector", id, <<>>, "", Len(col))
                            EXCEPT !.val = Arr([i \in 1..Len(col) |-> <<col[i]>>])]
Matrix(id, rows)     == [Node("Matrix", id, <<>>, "", Len(rows)) EXCEPT !.val = Arr(rows)]
SparseMatrix(id, trip, m, n) ==
    [Node("Matrix", id, <<>>, "", m) EXCEPT !.val = Sparse(trip, m, n)]
StateVectorNode(kind, id, mask) ==
    [Node(kind, id, <<>>, "", Cardinality({i \in 1..Len(mask) : mask[i]}))
        EXCEPT !.mask = mask]
Binary(kind, id, name, l, r, shape0) == Node(kind, id, <<l, r>>, name, shape0)
IndexNode(id, c, start, stop) ==
    [Node("Index", id, <<c>>, "Index", stop - start) EXCEPT !.start = start, !.stop = stop]

\* the class hierarchy the isinstance tests of find_symbols walk
BinaryKinds == {"Addition", "Subtraction", "Multiplication", "Division",
                "MatrixMultiplication", "Inner", "Minimum", "Maximum", "Power"}
UnaryKinds == {"Negate", "AbsoluteValue", "Index"}
ConcatenationKinds == {"Concatenation", "NumpyConcatenation", "SparseStack",
                       "DomainConcatenation"}
StateVectorBaseKinds == {"StateVector", "StateVectorDot", "StateVectorBase"}
ConstantKinds == {"Scalar", "Vector", "Matrix"}

\* symbol.size: the number of entries of the value
NodeSize(nd) == IF nd.shape0 = 0 THEN 1 ELSE nd.shape0

\* pybamm.util.is_constant_and_can_evaluate: no leaf below depends on y, t or inputs
RECURSIVE is_constant_and_can_evaluate(_, _)
is_constant_and_can_evaluate(nodes, i) ==
    \/ nodes[i].kind \in ConstantKinds
    \/ /\ nodes[i].ch # <<>>
       /\ nodes[i].kind \in BinaryKinds \cup UnaryKinds \cup ConcatenationKinds \cup {"Function"}
       /\ \A k \in 1..Len(nodes[i].ch) : is_constant_and_can_evaluate(nodes, nodes[i].ch[k])

\* symbol.evaluate() of a constant node
evaluate(nodes, i) == nodes[i].val

(***************************************************************************)
(* OrderedDict: a sequence of <<key, value>> in insertion order.           *)
(***************************************************************************)
DictHas(d, key) == \E i \in 1..Len(d) : d[i][1] = key

DictGet(d, key) == d[CHOOSE i \in 1..Len(d) : d[i][1] = key][2]

\* a dict whose assignment to a key already there moves the key to the end
DictSetMoveToEnd(d, key, value) ==
    Append(SelectSeq(d, LAMBDA e : e[1] # key), <<key, value>>)

\* a list of pairs instead of a dict: every assignment adds an entry
DictSetAppend(d, key, value) == Append(d, <<key, value>>)

\* d[key] = value: a key already there keeps its place
DictSet(d, key, value) ==
    IF DictHas(d, key)
    THEN [i \in 1..Len(d) |-> IF d[i][1] = key THEN <<key, value>> ELSE d[i]]
    ELSE Append(d, <<key, value>>)

DictKeys(d) == [i \in 1..Len(d) |-> d[i][1]]

(***************************************************************************)
(* id_to_julia_variable                                                    *)
(***************************************************************************)
id_to_julia_variable(symbol_id, prefix) ==
    Replace(prefix \o "_" \o Format05d(symbol_id), "-", "m")

(***************************************************************************)
(* find_symbols: the constant branch (lines 61-108)                        *)
(***************************************************************************)
\* what constant_symbols holds for an id: a string, a float (value[0, 0]) or the
\* numpy array itself, which is only printed when the preamble is written
ConstStr(text)   == [form |-> "str", text |-> text, num |-> Dec(FALSE, 0, <<>>), rows |-> <<>>]
ConstFloat(d)    == [form |-> "float", text |-> "", num |-> d, rows |-> <<>>]
ConstArray(rows) == [form |-> "ndarray", text |-> "", num |-> Dec(FALSE, 0, <<>>), rows |-> rows]

\* line 64 on a sparse matrix: numpy.round(value, decimals=11) of its stored entries
RoundSparse(trip) ==
    [i \in 1..Len(trip) |->
        <<trip[i][1], trip[i][2], RoundSparseDec(trip[i][3], RoundDecimals)>>]

\* line 70: numpy.round(data, decimals=11) of the array of the entries found
RoundTriples(trip) ==
    [i \in 1..Len(trip) |-> <<trip[i][1], trip[i][2], RoundDec(trip[i][3], RoundDecimals)>>]

IsStored(entry) == ~IsZero(entry[3])

\* scipy.sparse.find: the row, the column and the value of the entries that are not
\* zero; an entry that was rounded to zero, of either sign, is not among them
SparseFind(trip) == SelectSeq(trip, IsStored)

\* value = symbol.evaluate(); if round_constants: value = np.round(value, decimals=11);
\* of a sparse matrix, row, col, data = scipy.sparse.find(value) and
\* if round_constants: data = np.round(data, decimals=11)
RoundValue(v, round_constants) ==
    IF v.cls = "sparse"
    THEN [v EXCEPT !.trip = IF round_constants
                            THEN RoundTriples(SparseFind(RoundSparse(v.trip)))
                            ELSE SparseFind(v.trip)]
    ELSE IF ~round_constants THEN v
    ELSE IF v.cls = "number" THEN [v EXCEPT !.num = RoundDec(v.num, RoundDecimals)]
    ELSE [v EXCEPT !.rows = RoundRows(v.rows)]

\* "sparse({}, {}, {}, {}, {})" with 1-based rows and columns
SparseText(v, precision) ==
    LET k == Len(v.trip) IN
    "sparse(" \o NpIntArray2String([i \in 1..k |-> v.trip[i][1] + 1], ",") \o ", "
              \o NpIntArray2String([i \in 1..k |-> v.trip[i][2] + 1], ",") \o ", "
              \o NpArray2String([i \in 1..k |-> v.trip[i][3]], ",", precision) \o ", "
              \o ToString(v.m) \o ", " \o ToString(v.n) \o ")"

\* the three tables and the print options after the value of node nd, rounded or
\* not, went through the branches for a sparse matrix, a single entry, a column
\* and a dense matrix (a number is stored nowhere)
StoreConstant(nd, value, consts, sizes, precision, threshold) ==
    LET same  == [consts |-> consts, sizes |-> sizes, precision |-> precision,
                  threshold |-> threshold]
    IN  IF value.cls = "number" THEN same
        ELSE IF value.cls = "sparse"
        THEN [same EXCEPT
                !.threshold = IF Len(value.trip) + 10 > threshold
                              THEN Len(value.trip) + 10 ELSE threshold,
                !.precision = SparsePrintPrecision,
                !.consts = DictSet(consts, nd.id,
                                   ConstStr(SparseText(value, SparsePrintPrecision)))]
        ELSE IF value.m = 1 /\ value.n = 1
        THEN [same EXCEPT !.consts = DictSet(consts, nd.id, ConstFloat(value.rows[1][1])),
                          !.sizes = DictSet(sizes, nd.id, 1)]
        ELSE IF value.n = 1
        THEN [same EXCEPT
                !.threshold = IF value.m + 10 > threshold THEN value.m + 10 ELSE threshold,
                !.consts = DictSet(consts, nd.id,
                               ConstStr(NpArray2String(Flatten(value.rows), ",", precision))),
                !.sizes = DictSet(sizes, nd.id, nd.shape0)]
        ELSE [same EXCEPT !.consts = DictSet(consts, nd.id, ConstArray(value.rows))]

\* the three tables and the print options after the constant branch ran for node nd
ConstantBranch(nd, round_constants, consts, sizes, precision, threshold) ==
    StoreConstant(nd, RoundValue(nd.val, round_constants), consts, sizes, precision,
                  threshold)

(***************************************************************************)
(* find_symbols: the instruction of a variable node (lines 120-261)        *)
(***************************************************************************)
\* the reference to child c in its parent's instruction (lines 122-131)
ChildVar(nodes, c) ==
    IF is_constant_and_can_evaluate(nodes, c)
    THEN IF evaluate(nodes, c).cls = "number"
         THEN PyStrFloat(evaluate(nodes, c).num)
         ELSE id_to_julia_variable(nodes[c].id, "const")
    ELSE id_to_julia_variable(nodes[c].id, "cache")

children_vars(nodes, nd) == [k \in 1..Len(nd.ch) |-> ChildVar(nodes, nd.ch[k])]

Ok(str) == [err |-> "", str |-> str]
Raise(type) == [err |-> type, str |-> ""]

\* variable_symbol_sizes[int(child[6:].replace("m", "-"))]
ChildSize(child, sizes) ==
    LET parsed == PyInt(Replace(Slice(child, 6, Len(child)), "m", "-"))
    IN  IF ~parsed.ok THEN [err |-> "ValueError", size |-> 0]
        ELSE IF ~DictHas(sizes, parsed.val) THEN [err |-> "KeyError", size |-> 0]
        ELSE [err |-> "", size |-> DictGet(sizes, parsed.val)]

\* "[" + "{}::{}, " per child, then symbol_str[:-2] + "]"
RECURSIVE PairsText(_, _)
PairsText(vectors, sizes) ==
    IF vectors = <<>> THEN ""
    ELSE ToString(Head(sizes)) \o "::" \o Head(vectors) \o ", "
            \o PairsText(Tail(vectors), Tail(sizes))

PairList(vectors, sizes) ==
    LET body == "[" \o PairsText(vectors, sizes)
    IN  Slice(body, 0, Len(body) - 2) \o "]"

\* the first error the size lookups raise, in child order
FirstError(looked) ==
    LET bad == {k \in 1..Len(looked) : looked[k].err # ""}
    IN  IF bad = {} THEN "" ELSE looked[SetMin(bad)].err

\* NumpyConcatenation, SparseStack and a DomainConcatenation of one repetition
PlainConcatenationStr(cv, sizes) ==
    LET looked == [k \in 1..Len(cv) |-> ChildSize(cv[k], sizes)]
    IN  IF FirstError(looked) # "" THEN Raise(FirstError(looked))
        ELSE Ok(PairList(cv, [k \in 1..Len(cv) |-> looked[k].size]))

\* sorted(zip(keys, items)): the items in ascending order of their keys; zip stops at
\* the shorter of the two.  The keys of the model are distinct.
SortedByKey(keys, items) ==
    LET n == IF Len(keys) < Len(items) THEN Len(keys) ELSE Len(items)
        rank(i) == Cardinality({j \in 1..n : keys[j] < keys[i]}) + 1
    IN  [r \in 1..n |-> items[CHOOSE i \in 1..n : rank(i) = r]]

\* the (child, domain) pairs of a DomainConcatenation in declaration order:
\* <<child position, domain, the child's slices in that domain>>
RECURSIVE DomainEntries(_, _)
DomainEntries(cslices, k) ==
    IF k > Len(cslices) THEN <<>>
    ELSE [j \in 1..Len(cslices[k]) |-> <<k, cslices[k][j][1], cslices[k][j][2]>>]
            \o DomainEntries(cslices, k + 1)

\* lines 190-217: repetition i (from 1) of a DomainConcatenation.  slice_starts is
\* never reset, so it already holds the starts of the repetitions before i.
RECURSIVE DomainRepetitions(_, _, _, _)
DomainRepetitions(nd, cv, i, slice_starts) ==
    IF i > nd.npts THEN [vectors |-> <<>>, sizes |-> <<>>]
    ELSE LET entries == DomainEntries(nd.cslices, 1)
             starts  == slice_starts \o
                        [e \in 1..Len(entries) |-> DictGet(nd.slices, entries[e][2])[i][1]]
             child_vectors == [e \in 1..Len(entries) |->
                 "@view " \o cv[entries[e][1]] \o "[" \o ToString(entries[e][3][i][1] + 1)
                     \o ":" \o ToString(entries[e][3][i][2]) \o "]"]
             child_sizes == [e \in 1..Len(entries) |->
                 entries[e][3][i][2] - entries[e][3][i][1]]
             rest == DomainRepetitions(nd, cv, i + 1, starts)
         IN  [vectors |-> SortedByKey(starts, child_vectors) \o rest.vectors,
              sizes   |-> SortedByKey(starts, child_sizes) \o rest.sizes]

DomainConcatenationStr(nd, cv, sizes) ==
    IF nd.npts = 1 THEN PlainConcatenationStr(cv, sizes)
    ELSE LET all == DomainRepetitions(nd, cv, 1, <<>>)
         IN  Ok(PairList(all.vectors, all.sizes))

\* lines 228-240: np.argwhere(symbol.evaluation_array) + 1, then first and last
StateVectorStr(nd) ==
    LET indices == {i \in 1..Len(nd.mask) : nd.mask[i]}
        first   == SetMin(indices)
        last    == CHOOSE m \in indices : \A k \in indices : k <= m
    IN  IF nd.kind \notin {"StateVector", "StateVectorDot"} THEN Raise("UnboundLocalError")
        ELSE LET name == IF nd.kind = "StateVector" THEN "@view y" ELSE "@view dy" IN
             IF indices = {} THEN Raise("IndexError")
             ELSE IF Cardinality(indices) = 1
             THEN Ok(name \o "[" \o ToString(first) \o "]")
             ELSE Ok(name \o "[" \o ToString(first) \o ":" \o ToString(last) \o "]")

BinaryStr(nd, cv) ==
    IF nd.kind = "MatrixMultiplication" THEN cv[1] \o " @ " \o cv[2]
    ELSE IF nd.kind = "Inner" THEN cv[1] \o " * " \o cv[2]
    ELSE IF nd.kind = "Minimum" THEN "min(" \o cv[1] \o "," \o cv[2] \o ")"
    ELSE IF nd.kind = "Maximum" THEN "max(" \o cv[1] \o "," \o cv[2] \o ")"
    ELSE IF nd.kind = "Power" THEN cv[1] \o " .^ " \o cv[2]
    ELSE cv[1] \o " " \o nd.name \o " " \o cv[2]

UnaryStr(nd, cv) ==
    IF nd.kind = "Index"
    THEN cv[1] \o "[" \o ToString(nd.start + 1) \o ":" \o ToString(nd.stop) \o "]"
    ELSE nd.name \o cv[1]

\* the isinstance chain of lines 133-253: the instruction, or the exception raised
SymbolStr(nd, cv, sizes) ==
    IF nd.kind \in BinaryKinds THEN Ok(BinaryStr(nd, cv))
    ELSE IF nd.kind \in UnaryKinds THEN Ok(UnaryStr(nd, cv))
    ELSE IF nd.kind = "Function" THEN Ok(nd.name \o "(" \o Join(cv, ", ") \o ")")
    ELSE IF nd.kind \in ConcatenationKinds
    THEN IF nd.kind \in {"NumpyConcatenation", "SparseStack"}
         THEN PlainConcatenationStr(cv, sizes)
         ELSE IF nd.kind = "DomainConcatenation" THEN DomainConcatenationStr(nd, cv, sizes)
         ELSE Raise("UnboundLocalError")
    ELSE IF nd.kind \in StateVectorBaseKinds THEN StateVectorStr(nd)
    ELSE IF nd.kind = "Time" THEN Ok("t")
    ELSE IF nd.kind = "InputParameter" THEN Ok("inputs['" \o nd.name \o "']")
    ELSE Raise("NotImplementedError")

\* the module of pybamm.expression_tree that defines a class without a rule: the
\* classes that are neither operators, functions, concatenations, state vectors,
\* Time nor InputParameter
ModuleOf(kind) ==
    IF kind \in {"Variable", "VariableDot", "ExternalVariable"} THEN "variable"
    ELSE IF kind \in {"Parameter", "FunctionParameter"} THEN "parameter"
    ELSE IF kind \in {"IndependentVariable", "SpatialVariable", "SpatialVariableEdge"}
    THEN "independent_variable"
    ELSE "symbol"

\* str(type(symbol)): the class with its module
ClassRepr(kind) ==
    "<class 'pybamm.expression_tree." \o ModuleOf(kind) \o "." \o kind \o "'>"

\* the text of the exception: NotImplementedError names the type of the symbol
ErrorText(type, nd) ==
    IF type = "NotImplementedError"
    THEN type \o ": Conversion to Julia not implemented for a symbol of type '"
              \o ClassRepr(nd.kind) \o "'"
    ELSE type

(***************************************************************************)
(* get_julia_function: the preamble of constants (lines 357-364)           *)
(***************************************************************************)
\* "{}".format(const_value)
ConstValueText(c, precision) ==
    IF c.form = "str" THEN c.text
    ELSE IF c.form = "float" THEN PyStrFloat(c.num)
    ELSE NpMatrixStr(c.rows, precision)

RECURSIVE ConstLines(_, _, _)
ConstLines(consts, i, precision) ==
    IF i > Len(consts) THEN ""
    ELSE "   const_" \o ToString(i - 1) \o " = " \o ConstValueText(consts[i][2], precision)
            \o ",\n" \o ConstLines(consts, i + 1, precision)

ShorterConstNames(consts) ==
    [i \in 1..Len(consts) |->
        <<id_to_julia_variable(consts[i][1], "const"), "const_" \o ToString(i - 1)>>]

(***************************************************************************)
(* get_julia_function: one turn of the loop over var_symbols (372-456)     *)
(***************************************************************************)
inlineable_symbols == <<"@view", "+", "-", "*", "/">>

AnyIn(patterns, line) == \E k \in 1..Len(patterns) : Contains(line, patterns[k])

\* lines 382-389: one slice assignment per child
RECURSIVE SliceAssignments(_, _, _)
SliceAssignments(parts, julia_var, start) ==
    IF parts = <<>> THEN Ok("")
    ELSE LET pair == Split(Head(parts), "::")
             size == PyInt(IF Len(pair) = 2 THEN pair[1] ELSE "")
         IN  IF Len(pair) # 2 \/ ~size.ok THEN Raise("ValueError")
             ELSE LET rest == SliceAssignments(Tail(parts), julia_var, start + size.val)
                  IN  IF rest.err # "" THEN rest
                      ELSE Ok("@. " \o julia_var \o "[" \o ToString(start + 1) \o ":"
                                \o ToString(start + size.val) \o "] = " \o pair[2] \o "\n"
                                \o rest.str)

\* lines 391-396: a temporary per child, then one vcat
RECURSIVE VcatTemporaries(_, _)
VcatTemporaries(parts, i) ==
    IF i > Len(parts) THEN Ok("")
    ELSE LET pair == Split(parts[i], "::")
         IN  IF Len(pair) # 2 THEN Raise("ValueError")
             ELSE LET rest == VcatTemporaries(parts, i + 1)
                  IN  IF rest.err # "" THEN rest
                      ELSE Ok("x" \o ToString(i) \o " = @. " \o pair[2] \o "\n" \o rest.str)

VcatStatement(parts, julia_var) ==
    LET concat_str == julia_var \o " = vcat(" \o
                      Join([i \in 1..Len(parts) |-> "x" \o ToString(i) \o ", "], "")
    IN  Slice(concat_str, 0, Len(concat_str) - 2) \o ")\n"

\* lines 420-430
any_matmul_min_max(julia_var, symbol_line, rest) ==
    \E k \in 1..Len(rest) :
        /\ Contains(rest[k][2], julia_var)
        /\ AnyIn(<<" @ ", "mul!", "minimum", "maximum">>, rest[k][2])
        /\ ~StartsWith(symbol_line, "@view")

\* lines 438-450: the later lines with julia_var replaced by the line
InlineInto(rest, julia_var, symbol_line) ==
    [k \in 1..Len(rest) |->
        IF Contains(rest[k][2], julia_var)
        THEN <<rest[k][1], Replace(rest[k][2], julia_var,
                    IF symbol_line = "t" THEN symbol_line ELSE "(" \o symbol_line \o ")")>>
        ELSE rest[k]]

\* the rule the loop applies to a line
EmitRule(julia_var, symbol_line, rest) ==
    IF SubSeq(symbol_line, 1, 1) = "[" /\ SubSeq(symbol_line, Len(symbol_line), Len(symbol_line)) = "]"
    THEN "concatenation"
    ELSE IF Contains(symbol_line, " @ ") THEN "matmul"
    ELSE IF StartsWith(symbol_line, "inputs") THEN "input"
    ELSE IF Contains(symbol_line, "minimum") \/ Contains(symbol_line, "maximum")
    THEN "reduction"
    ELSE IF /\ AnyIn(inlineable_symbols, symbol_line) \/ symbol_line = "t"
            /\ ~any_matmul_min_max(julia_var, symbol_line, rest)
            /\ \E k \in 1..Len(rest) : Contains(rest[k][2], julia_var)
    THEN "inline"
    ELSE "assign"

\* one turn: popitem(last=False) and the rule for the line.  The result is the
\* tables and the text after the turn, or the exception the turn raises.
EmitTurn(table, text, inputs, prealloc, symbol_id) ==
    LET var_symbol_id == table[1][1]
        symbol_line   == table[1][2]
        rest          == Tail(table)
        julia_var     == id_to_julia_variable(var_symbol_id, "cache")
        rule          == EmitRule(julia_var, symbol_line, rest)
        parts         == Split(Slice(symbol_line, 1, Len(symbol_line) - 1), ", ")
        same          == [err |-> "", table |-> rest, text |-> text, inputs |-> inputs,
                          rule |-> rule]
    IN  IF rule = "concatenation"
        THEN IF prealloc \/ var_symbol_id = symbol_id
             THEN LET r == SliceAssignments(parts, julia_var, 0)
                  IN  [same EXCEPT !.err = r.err, !.text = text \o r.str]
             ELSE LET r == VcatTemporaries(parts, 1)
                  IN  [same EXCEPT !.err = r.err,
                                   !.text = text \o r.str \o VcatStatement(parts, julia_var)]
        ELSE IF rule = "matmul"
        THEN IF ~prealloc
             THEN [same EXCEPT !.text = text \o julia_var \o " = "
                                        \o Replace(symbol_line, " @ ", " * ") \o "\n"]
             ELSE [same EXCEPT !.text = text \o "mul!(" \o julia_var \o ", "
                                        \o Replace(symbol_line, " @ ", ", ") \o ")\n"]
        ELSE IF rule = "input"
        THEN [same EXCEPT !.inputs = DictSet(inputs, julia_var,
                                        Slice(symbol_line, 8, Len(symbol_line) - 2))]
        ELSE IF rule = "reduction"
        THEN [same EXCEPT !.text = text \o julia_var \o " .= " \o symbol_line \o "\n"]
        ELSE IF rule = "inline"
        THEN [same EXCEPT !.table = InlineInto(rest, julia_var, symbol_line)]
        ELSE [same EXCEPT !.text = text \o "@. " \o julia_var \o " = " \o symbol_line \o "\n"]

(***************************************************************************)
(* get_julia_function: the renaming passes (lines 457-489)                 *)
(***************************************************************************)
RECURSIVE ReplaceInputs(_, _)
ReplaceInputs(text, inputs) ==
    IF inputs = <<>> THEN text
    ELSE ReplaceInputs(Replace(text, Head(inputs)[1], Head(inputs)[2]), Tail(inputs))

\* lines 465-485: the cache NamedTuple and the short cache names
RECURSIVE CacheRename(_, _, _, _, _, _, _)
CacheRename(sizes, k, text, cc, i_cache, prealloc, symbol_id) ==
    IF k > Len(sizes) THEN [text |-> text, cc |-> cc]
    ELSE LET julia_var == id_to_julia_variable(sizes[k][1], "cache")
             short     == "cache_" \o ToString(i_cache)
             renamed   == Replace(text, julia_var, short)
         IN  IF sizes[k][1] # symbol_id /\ Contains(text, julia_var)
             THEN IF prealloc
                  THEN CacheRename(sizes, k + 1, renamed,
                           cc \o "   " \o short \o " = zeros(" \o ToString(sizes[k][2]) \o "),\n",
                           i_cache + 1, prealloc, symbol_id)
                  ELSE CacheRename(sizes, k + 1,
                           Replace(renamed, "@. " \o short \o " = ", short \o " = @. "),
                           cc, i_cache + 1, prealloc, symbol_id)
             ELSE CacheRename(sizes, k + 1, text, cc, i_cache, prealloc, symbol_id)

RECURSIVE ShortenConsts(_, _)
ShortenConsts(text, names) ==
    IF names = <<>> THEN text
    ELSE ShortenConsts(Replace(text, Head(names)[1], "cs." \o Head(names)[2]), Tail(names))

RenamePasses(text, cc, inputs, sizes, names, prealloc, symbol_id) ==
    LET replaced == ReplaceInputs(text, inputs)
        indented == Replace("   " \o replaced, "\n", "\n   ")
        cached   == CacheRename(sizes, 1, indented, cc, 0, prealloc, symbol_id)
    IN  [text |-> ShortenConsts(cached.text, names), cc |-> cached.cc]

(***************************************************************************)
(* get_julia_function: the result line and the procedure (lines 491-565)   *)
(***************************************************************************)
\* the output buffer of a variable root (lines 509-512)
OutName(typ) == IF typ = "ode" THEN "dy" ELSE "out"

\* lines 497-517
ResultLines(text, nodes, root, names, typ) ==
    IF is_constant_and_can_evaluate(nodes, root)
    THEN LET long == id_to_julia_variable(nodes[root].id, "const")
             result_var == IF DictHas(names, long) THEN DictGet(names, long) ELSE long
         IN  IF evaluate(nodes, root).cls = "number"
             THEN text \o "\n   dy .= " \o PyStrFloat(evaluate(nodes, root).num) \o "\n"
             ELSE text \o "\n   dy .= cs." \o result_var \o "\n"
    ELSE LET result_var == id_to_julia_variable(nodes[root].id, "cache")
             out == OutName(typ)
         IN  Replace(Replace(text, "   " \o result_var \o " =", "   " \o out \o " .="),
                     result_var, out)

\* lines 523-531; an absent order is the empty sequence
InputParameterExtraction(order) ==
    IF order = <<>> THEN ""
    ELSE IF Len(order) = 1 THEN "   " \o order[1] \o " = p[1]\n"
    ELSE "   " \o Join(order, ", ") \o " = p\n"

\* the name chosen by the preallocate flag alone
FuncDefByFlag(name, prealloc, cc) ==
    IF ~prealloc THEN name \o "!" ELSE name \o "_with_consts!"

\* lines 533-536
FuncDef(name, prealloc, cc) ==
    IF ~prealloc \/ cc = "" THEN name \o "!" ELSE name \o "_with_consts!"

\* lines 539-542
FunctionDef(func_def, typ) ==
    IF typ = "ode" THEN "\nfunction " \o func_def \o "(dy, y, p, t)\n"
    ELSE "\nfunction " \o func_def \o "(out, dy, y, p, t)\n"

Assembled(text, cc0, nodes, root, names, typ, prealloc, name, order) ==
    LET cc       == Replace(cc0 \o ")\n", "cs = (\n)\n", "")
        result   == ResultLines(text, nodes, root, names, typ)
        body     == IF prealloc THEN Replace(result, "cache", "cs.cache") ELSE result
        func_def == FuncDef(name, prealloc, cc)
        whole    == Replace("begin\n" \o cc \o FunctionDef(func_def, typ)
                                \o InputParameterExtraction(order) \o body
                                \o "nothing\nend\n\n",
                            "\n   \n", "\n")
    IN  IF ~(~prealloc \/ cc = "")
        THEN Replace(whole, "cs = (", name \o "! = let cs = (") \o "end\n" \o "end"
        ELSE whole \o "end"

(***************************************************************************)
(* get_julia_function: the residual form of a DAE (lines 335-352)          *)
(***************************************************************************)
\* len_rhs=None
None == -1

\* ids of the nodes the rewrite creates.  pybamm derives an id by hashing the class,
\* the name and the children; the model gives each new node an id no catalogue node has.
DotId(start, end) == 70000 + 100 * start + end
ResidualId(k) == 80000 + k
ConcatId(k) == 90000 + k

\* a derivative reference that forgets the start of the child: slice(0, end)
StateVectorDotFromZero(start, end) ==
    StateVectorNode("StateVectorDot", DotId(start, end), [i \in 1..end |-> TRUE])

\* pybamm.StateVectorDot(slice(start, end))
StateVectorDotSlice(start, end) ==
    StateVectorNode("StateVectorDot", DotId(start, end), [i \in 1..end |-> i > start])

\* the sum of child.size over the first k children
RECURSIVE EndOffset(_, _, _)
EndOffset(nodes, ch, k) ==
    IF k = 0 THEN 0 ELSE EndOffset(nodes, ch, k - 1) + NodeSize(nodes[ch[k]])

\* the children of numpy_concatenation: a NumpyConcatenation child gives its own
RECURSIVE SpliceChildren(_, _)
SpliceChildren(nodes, ch) ==
    IF ch = <<>> THEN <<>>
    ELSE (IF nodes[Head(ch)].kind = "NumpyConcatenation"
          THEN nodes[Head(ch)].ch ELSE <<Head(ch)>>) \o SpliceChildren(nodes, Tail(ch))

\* the rows of the stacked value of constant children
RECURSIVE StackRows(_, _)
StackRows(nodes, ch) ==
    IF ch = <<>> THEN <<>>
    ELSE (IF nodes[Head(ch)].val.cls = "number"
          THEN <<<<nodes[Head(ch)].val.num>>>> ELSE nodes[Head(ch)].val.rows)
         \o StackRows(nodes, Tail(ch))

\* the arena and the root of symbol after lines 343-352
DaeRewrite(nodes, root, len_rhs) ==
    LET ch      == nodes[root].ch
        inside  == {k \in 1..Len(ch) : EndOffset(nodes, ch, k) <= len_rhs}
        c       == Cardinality(inside)
        base    == Len(nodes)
        extra   == [j \in 1..(2 * c) |->
                      LET k == (j + 1) \div 2 IN
                      IF j % 2 = 1
                      THEN StateVectorDotSlice(EndOffset(nodes, ch, k - 1),
                                               EndOffset(nodes, ch, k))
                      ELSE Binary("Subtraction", ResidualId(k), "-", ch[k], base + j - 1,
                                  NodeSize(nodes[ch[k]]))]
        grown   == nodes \o extra
        listed  == [k \in 1..Len(ch) |-> IF k \in inside THEN base + 2 * k ELSE ch[k]]
        spliced == SpliceChildren(grown, listed)
        total   == EndOffset(nodes, ch, Len(ch))
        folded  == \A k \in 1..Len(spliced) : is_constant_and_can_evaluate(grown, spliced[k])
        new_id  == IF c = 0 /\ spliced = ch /\ nodes[root].kind = "NumpyConcatenation"
                   THEN nodes[root].id ELSE ConcatId(c)
        new_root == IF folded
                    THEN [Node("Vector", new_id, <<>>, "", total)
                            EXCEPT !.val = Arr(StackRows(grown, spliced))]
                    ELSE Node("NumpyConcatenation", new_id, spliced, "", total)
    IN  [nodes |-> Append(grown, new_root), root |-> Len(grown) + 1]

(***************************************************************************)
(* The DAGs the model compiles.  Each is an arena, its root and the        *)
(* input_parameter_order the caller passes for it (<<>> for None).         *)
(***************************************************************************)
five      == Dec(FALSE, 5, <<>>)
two       == Dec(FALSE, 2, <<>>)
half      == Dec(FALSE, 0, <<5>>)
minusOne  == Dec(TRUE, 1, <<>>)
third     == Dec(FALSE, 0, <<3, 3, 3, 3, 3, 3, 3, 3, 3, 3, 3, 3>>)
twoThirds == Dec(FALSE, 0, <<6, 6, 6, 6, 6, 6, 6, 6, 6, 6, 6, 7>>)
twelfth   == Dec(FALSE, 0, <<1, 2, 3, 4, 5, 6, 7, 8, 9, 0, 1, 2>>)

Dag(nodes, root, order) == [nodes |-> nodes, root |-> root, order |-> order]

\* StateVector(mask={0}) alone: no constant and no cache buffer
DagStateVector ==
    Dag(<<StateVectorNode("StateVector", 101, <<TRUE>>)>>, 1, <<>>)

\* Scalar(0.123456789012) + StateVector(mask={1})
DagScalarPlusState ==
    Dag(<<Scalar(201, twelfth),
          StateVectorNode("StateVector", 202, <<FALSE, TRUE>>),
          Binary("Addition", 203, "+", 1, 2, 1)>>, 3, <<>>)

\* exp(y[0:2]) is a child of the power and of the root
DagShared ==
    Dag(<<StateVectorNode("StateVector", 301, <<TRUE, TRUE>>),
          Node("Function", 302, <<1>>, "exp", 2),
          Scalar(303, two),
          Binary("Power", 304, "**", 2, 3, 2),
          Binary("Addition", 305, "+", 4, 2, 2)>>, 5, <<>>)

\* a dense vector constant lowered before a sparse constant; the state vector is a
\* child of both products
DagVectorThenSparse ==
    Dag(<<Vector(401, <<third, twoThirds>>),
          StateVectorNode("StateVector", 402, <<TRUE, TRUE>>),
          Binary("Multiplication", 403, "*", 1, 2, 2),
          SparseMatrix(404, <<<<0, 0, half>>, <<1, 1, twelfth>>>>, 2, 2),
          Binary("MatrixMultiplication", 405, "@", 4, 2, 2),
          Binary("Addition", 406, "+", 3, 5, 2)>>, 6, <<>>)

\* the product with the dense vector is a child of the root and of the matrix
\* product, so it is lowered again after the sparse constant
DagRelowered ==
    Dag(<<Vector(451, <<third, twoThirds>>),
          StateVectorNode("StateVector", 452, <<TRUE, TRUE>>),
          Binary("Multiplication", 453, "*", 1, 2, 2),
          SparseMatrix(454, <<<<0, 0, half>>, <<1, 1, twelfth>>>>, 2, 2),
          Binary("MatrixMultiplication", 455, "@", 4, 3, 2),
          Binary("Addition", 456, "+", 3, 5, 2)>>, 6, <<>>)

\* a dense matrix constant times a function of the state
DagDenseMatrix ==
    Dag(<<Matrix(501, <<<<minusOne, two>>, <<third, five>>>>),
          StateVectorNode("StateVector", 502, <<TRUE, TRUE>>),
          Node("Function", 503, <<2>>, "sin", 2),
          Binary("MatrixMultiplication", 504, "@", 1, 3, 2)>>, 4, <<>>)

\* the concatenation of two equations, for the ODE and the DAE form
DagConcatenation ==
    Dag(<<StateVectorNode("StateVector", 601, <<TRUE>>),
          StateVectorNode("StateVector", 602, <<FALSE, TRUE>>),
          Node("Negate", 603, <<1>>, "-", 1),
          Node("Function", 604, <<2>>, "sin", 1),
          Node("NumpyConcatenation", 605, <<3, 4>>, "", 2)>>, 5, <<>>)

\* a concatenation of constants: a compile-time constant root
DagConstantConcatenation ==
    Dag(<<Vector(701, <<five, half>>),
          Vector(702, <<minusOne>>),
          [Node("NumpyConcatenation", 703, <<1, 2>>, "", 3)
              EXCEPT !.val = Arr(<<<<five>>, <<half>>, <<minusOne>>>>)]>>, 3, <<>>)

\* an input parameter as the root
DagInputRoot ==
    Dag(<<Node("InputParameter", 801, <<>>, "a", 0)>>, 1, <<"a">>)

\* a * y[0] + b
DagInputs ==
    Dag(<<Node("InputParameter", 811, <<>>, "a", 0),
          Node("InputParameter", 812, <<>>, "b", 0),
          StateVectorNode("StateVector", 813, <<TRUE>>),
          Binary("Multiplication", 814, "*", 1, 3, 1),
          Binary("Addition", 815, "+", 4, 2, 1)>>, 5, <<"a", "b">>)

\* a state vector whose mask selects positions 0 and 2 only
DagGappedMask ==
    Dag(<<StateVectorNode("StateVector", 901, <<TRUE, FALSE, TRUE>>),
          Scalar(902, two),
          Binary("Multiplication", 903, "*", 2, 1, 2)>>, 3, <<>>)

\* a plain pybamm.Concatenation
DagPlainConcatenation ==
    Dag(<<StateVectorNode("StateVector", 1001, <<TRUE>>),
          StateVectorNode("StateVector", 1002, <<FALSE, TRUE>>),
          Node("Concatenation", 1003, <<1, 2>>, "concatenation", 2)>>, 3, <<>>)

\* a pybamm.Variable, which has no rendering rule
DagVariable ==
    Dag(<<Node("Variable", 1101, <<>>, "u", 1),
          StateVectorNode("StateVector", 1102, <<TRUE>>),
          Binary("Addition", 1103, "+", 1, 2, 1)>>, 3, <<>>)

\* a StateVectorBase that is neither a StateVector nor a StateVectorDot
DagStateVectorBase ==
    Dag(<<StateVectorNode("StateVectorBase", 1201, <<TRUE, TRUE>>)>>, 1, <<>>)

\* t * y[0]
DagTime ==
    Dag(<<Node("Time", 1301, <<>>, "time", 0),
          StateVectorNode("StateVector", 1302, <<TRUE>>),
          Binary("Multiplication", 1303, "*", 1, 2, 1)>>, 3, <<>>)

\* a scalar constant as the root
DagScalarRoot ==
    Dag(<<Scalar(1501, twelfth)>>, 1, <<>>)

\* min(y[0] + y[1], exp(y[1])) with ids of six digits and negative ids
DagMinimum ==
    Dag(<<StateVectorNode("StateVector", -7, <<TRUE>>),
          StateVectorNode("StateVector", 123456, <<FALSE, TRUE>>),
          Binary("Addition", -12345, "+", 1, 2, 1),
          Node("Function", 1404, <<2>>, "exp", 1),
          Binary("Minimum", 1405, "minimum", 3, 4, 1)>>, 5, <<>>)

\* a concatenation that is not the root and is a child of two parents
DagSharedConcatenation ==
    Dag(<<StateVectorNode("StateVector", 1601, <<TRUE>>),
          Node("Function", 1602, <<1>>, "exp", 1),
          Vector(1603, <<minusOne>>),
          Node("NumpyConcatenation", 1604, <<2, 3>>, "", 2),
          Matrix(1605, <<<<two, five>>, <<half, minusOne>>>>),
          Binary("MatrixMultiplication", 1606, "@", 5, 4, 2),
          Binary("Maximum", 1607, "maximum", 6, 4, 2)>>, 7, <<>>)

\* a concatenation with a scalar constant child
DagConcatenationOfScalar ==
    Dag(<<Scalar(1701, five),
          StateVectorNode("StateVector", 1702, <<TRUE>>),
          Node("NumpyConcatenation", 1703, <<1, 2>>, "", 2)>>, 3, <<>>)

\* y[0:3][1:3] negated
DagIndex ==
    Dag(<<StateVectorNode("StateVector", 1801, <<TRUE, TRUE, TRUE>>),
          IndexNode(1802, 1, 1, 3),
          Node("Negate", 1803, <<2>>, "-", 2)>>, 3, <<>>)

\* a DomainConcatenation of two repetitions whose first child lies behind its second
DagDomainConcatenation ==
    Dag(<<StateVectorNode("StateVector", 1901, <<TRUE, TRUE, FALSE, FALSE, FALSE, FALSE>>),
          StateVectorNode("StateVector", 1902, <<FALSE, FALSE, TRUE, TRUE, TRUE, TRUE>>),
          [Node("DomainConcatenation", 1903, <<1, 2>>, "domain_concatenation", 6)
              EXCEPT !.npts = 2,
                     !.cslices = << <<<<"separator", <<<<0, 1>>, <<1, 2>>>>>>>>,
                                    <<<<"negative", <<<<0, 2>>, <<2, 4>>>>>>>> >>,
                     !.slices = << <<"separator", <<<<2, 3>>, <<5, 6>>>>>>,
                                   <<"negative", <<<<0, 2>>, <<3, 5>>>>>> >>]>>, 3, <<>>)

\* two vector constants; the text of the first id is the start of the second's
DagPrefixConstants ==
    Dag(<<Vector(12345, <<five, half>>),
          Vector(123456, <<minusOne, two>>),
          StateVectorNode("StateVector", 2001, <<TRUE, TRUE>>),
          Binary("Multiplication", 2002, "*", 1, 3, 2),
          Binary("Multiplication", 2003, "*", 2, 3, 2),
          Binary("Addition", 2004, "+", 4, 5, 2)>>, 6, <<>>)

\* two function calls; the text of the first id is the start of the second's
DagPrefixCaches ==
    Dag(<<StateVectorNode("StateVector", 2101, <<TRUE, TRUE>>),
          Node("Function", 54321, <<1>>, "exp", 2),
          Node("Function", 543210, <<2>>, "sin", 2),
          Binary("Addition", 2102, "+", 2, 3, 2)>>, 4, <<>>)

\* a DomainConcatenation of two repetitions whose children are declared with the
\* slice starts 5, 0, 10 in the first repetition and 16, 11, 21 in the second
DagDomainStarts ==
    Dag(<<StateVectorNode("StateVector", 2201, [i \in 1..10 |-> TRUE]),
          StateVectorNode("StateVector", 2202, [i \in 1..20 |-> i > 10]),
          StateVectorNode("StateVector", 2203, [i \in 1..22 |-> i > 20]),
          [Node("DomainConcatenation", 2204, <<1, 2, 3>>, "domain_concatenation", 22)
              EXCEPT !.npts = 2,
                     !.cslices = << <<<<"a", <<<<0, 5>>, <<5, 10>>>>>>>>,
                                    <<<<"b", <<<<0, 5>>, <<5, 10>>>>>>>>,
                                    <<<<"c", <<<<0, 1>>, <<1, 2>>>>>>>> >>,
                     !.slices = << <<"a", <<<<5, 10>>, <<16, 21>>>>>>,
                                   <<"b", <<<<0, 5>>, <<11, 16>>>>>>,
                                   <<"c", <<<<10, 11>>, <<21, 22>>>>>> >>]>>, 4, <<>>)

\* a DomainConcatenation of one repetition whose first child lies behind its second
DagDomainOnce ==
    Dag(<<StateVectorNode("StateVector", 2301, <<TRUE, TRUE>>),
          StateVectorNode("StateVector", 2302, <<FALSE, FALSE, TRUE>>),
          [Node("DomainConcatenation", 2303, <<1, 2>>, "domain_concatenation", 3)
              EXCEPT !.npts = 1,
                     !.cslices = << <<<<"a", <<<<0, 2>>>>>>>>,
                                    <<<<"b", <<<<0, 1>>>>>>>> >>,
                     !.slices = << <<"a", <<<<1, 3>>>>>>,
                                   <<"b", <<<<0, 1>>>>>> >>]>>, 3, <<>>)

\* a DomainConcatenation whose second repetition holds its domains in the other order
DagDomainSwapped ==
    Dag(<<StateVectorNode("StateVector", 2401, <<TRUE, TRUE>>),
          StateVectorNode("StateVector", 2402, <<FALSE, FALSE, TRUE, TRUE>>),
          [Node("DomainConcatenation", 2403, <<1, 2>>, "domain_concatenation", 4)
              EXCEPT !.npts = 2,
                     !.cslices = << <<<<"a", <<<<0, 1>>, <<1, 2>>>>>>>>,
                                    <<<<"b", <<<<0, 1>>, <<1, 2>>>>>>>> >>,
                     !.slices = << <<"a", <<<<0, 1>>, <<3, 4>>>>>>,
                                   <<"b", <<<<1, 2>>, <<2, 3>>>>>> >>]>>, 3, <<>>)

\* a concatenation whose first child is a call of a function of two arguments
DagConcatenationOfCall ==
    Dag(<<StateVectorNode("StateVector", 2501, <<TRUE>>),
          StateVectorNode("StateVector", 2502, <<FALSE, TRUE>>),
          Node("Function", 2503, <<1, 2>>, "hypot", 1),
          StateVectorNode("StateVector", 2504, <<FALSE, FALSE, TRUE>>),
          Node("NumpyConcatenation", 2505, <<3, 4>>, "", 2)>>, 5, <<>>)

\* a SparseStack of a sparse constant and a product with the state vector
DagStackOfSparse ==
    Dag(<<SparseMatrix(2601, <<<<0, 0, half>>, <<1, 1, two>>>>, 2, 2),
          StateVectorNode("StateVector", 2602, <<TRUE, TRUE>>),
          Binary("MatrixMultiplication", 2603, "@", 1, 2, 2),
          Node("SparseStack", 2604, <<1, 3>>, "", 4)>>, 4, <<>>)

\* a DomainConcatenation of two repetitions that is a child of two nodes
DagSharedDomainConcatenation ==
    Dag(<<StateVectorNode("StateVector", 2701, <<TRUE, TRUE, FALSE, FALSE, FALSE, FALSE>>),
          StateVectorNode("StateVector", 2702, <<FALSE, FALSE, TRUE, TRUE, TRUE, TRUE>>),
          [Node("DomainConcatenation", 2703, <<1, 2>>, "domain_concatenation", 6)
              EXCEPT !.npts = 2,
                     !.cslices = << <<<<"separator", <<<<0, 1>>, <<1, 2>>>>>>>>,
                                    <<<<"negative", <<<<0, 2>>, <<2, 4>>>>>>>> >>,
                     !.slices = << <<"separator", <<<<2, 3>>, <<5, 6>>>>>>,
                                   <<"negative", <<<<0, 2>>, <<3, 5>>>>>> >>],
          Node("Function", 2704, <<3>>, "exp", 6),
          Binary("Addition", 2705, "+", 4, 3, 6)>>, 5, <<>>)

Catalogue ==
    <<DagStateVector, DagScalarPlusState, DagShared, DagVectorThenSparse, DagDenseMatrix,
      DagConcatenation, DagConstantConcatenation, DagInputRoot, DagInputs, DagGappedMask,
      DagPlainConcatenation, DagVariable, DagStateVectorBase, DagTime, DagScalarRoot,
      DagRelowered, DagMinimum, DagSharedConcatenation, DagConcatenationOfScalar, DagIndex,
      DagDomainConcatenation, DagPrefixConstants, DagPrefixCaches, DagDomainStarts,
      DagDomainOnce, DagDomainSwapped, DagConcatenationOfCall, DagStackOfSparse,
      DagSharedDomainConcatenation>>

\* the largest len_rhs a caller passes in the model
MaxLenRhs == 2

\* the number of get_julia_function calls of one process in the model
MaxCompiles == 2

\* funcname="f"
funcname == "f"

\* the numpy print options of a fresh process
DefaultPrintOptions == [precision |-> 8, threshold |-> 1000]

(***************************************************************************)
(* The state                                                               *)
(***************************************************************************)
VARIABLES
    pc,                     \* where the call of get_julia_function stands
    calls,                  \* the calls made so far in this process
    dag, preallocate, len_rhs, round_constants,    \* the arguments of the call
    nodes, root,            \* symbol, after the DAE rewrite
    stack,                  \* the active find_symbols frames: node and next child;
                            \* after an exception, the frames it was raised in
    constant_symbols, variable_symbols, variable_symbol_sizes,
    np_printoptions,        \* numpy's process-wide print options
    const_and_cache_str, shorter_const_names, var_str, input_parameters,
    julia_str,              \* the text returned
    err,                    \* the exception raised, "" for none
    visits,                 \* how often the body of find_symbols ran, by id
    rules,                  \* <<id, rule>> of every turn of the emission loop
    watch,                  \* the arguments and the text of the call before
    prev,                   \* that text, while the same arguments are compiled again
    mesh                    \* the submesh generator and the submesh it was called for

compiler == <<pc, calls, dag, preallocate, len_rhs, round_constants, nodes, root, stack,
              constant_symbols, variable_symbols, variable_symbol_sizes, np_printoptions,
              const_and_cache_str, shorter_const_names, var_str, input_parameters,
              julia_str, err, visits, rules, watch, prev>>

vars == <<compiler, mesh>>

args == <<dag, preallocate, len_rhs, round_constants>>
tables == <<constant_symbols, variable_symbols, variable_symbol_sizes>>
emission == <<const_and_cache_str, shorter_const_names, var_str, input_parameters>>
ghosts == <<visits, rules, watch, prev>>

typ == IF len_rhs = None THEN "ode" ELSE "dae"

NoWatch == [key |-> <<0, FALSE, None, FALSE>>, text |-> ""]

\* no generator has been made
NoMesh == [at |-> "none"]

Init ==
    /\ pc = "idle"
    /\ calls = 0
    /\ dag = 0 /\ preallocate = FALSE /\ len_rhs = None /\ round_constants = FALSE
    /\ nodes = <<>> /\ root = 0 /\ stack = <<>>
    /\ constant_symbols = <<>> /\ variable_symbols = <<>> /\ variable_symbol_sizes = <<>>
    /\ np_printoptions = DefaultPrintOptions
    /\ const_and_cache_str = "" /\ shorter_const_names = <<>> /\ var_str = ""
    /\ input_parameters = <<>>
    /\ julia_str = "" /\ err = ""
    /\ visits = <<>> /\ rules = <<>>
    /\ watch = NoWatch /\ prev = ""
    /\ mesh = NoMesh

(***************************************************************************)
(* get_julia_function is called (lines 298-355, up to the call of to_julia) *)
(***************************************************************************)
Call(d, pre, lr, rc) ==
    /\ UNCHANGED mesh
    /\ pc = "idle"
    /\ calls < MaxCompiles
    /\ lr # None => Catalogue[d].nodes[Catalogue[d].root].kind = "NumpyConcatenation"
    /\ LET symbol == IF lr = None
                     THEN [nodes |-> Catalogue[d].nodes, root |-> Catalogue[d].root]
                     ELSE DaeRewrite(Catalogue[d].nodes, Catalogue[d].root, lr)
       IN  /\ nodes' = symbol.nodes
           /\ root' = symbol.root
           /\ stack' = <<[n |-> symbol.root, k |-> 1]>>
    /\ pc' = "lower"
    /\ calls' = calls + 1
    /\ dag' = d /\ preallocate' = pre /\ len_rhs' = lr /\ round_constants' = rc
    /\ constant_symbols' = <<>> /\ variable_symbols' = <<>> /\ variable_symbol_sizes' = <<>>
    /\ const_and_cache_str' = "" /\ shorter_const_names' = <<>> /\ var_str' = ""
    /\ input_parameters' = <<>>
    /\ julia_str' = "" /\ err' = ""
    /\ visits' = <<>> /\ rules' = <<>>
    /\ prev' = IF watch.key = <<d, pre, lr, rc>> THEN watch.text ELSE ""
    /\ watch' = NoWatch
    /\ UNCHANGED np_printoptions

(***************************************************************************)
(* find_symbols, one frame at a time                                       *)
(***************************************************************************)
Top == stack[Len(stack)]
Pop == SubSeq(stack, 1, Len(stack) - 1)
Visit(id) == DictSet(visits, id, IF DictHas(visits, id) THEN DictGet(visits, id) + 1 ELSE 1)

\* lines 61-108: the node is constant; its children are not lowered
FindSymbolsConstant ==
    /\ UNCHANGED mesh
    /\ pc = "lower" /\ stack # <<>>
    /\ is_constant_and_can_evaluate(nodes, Top.n)
    /\ LET r == ConstantBranch(nodes[Top.n], round_constants, constant_symbols,
                               variable_symbol_sizes, np_printoptions.precision,
                               np_printoptions.threshold)
       IN  /\ constant_symbols' = r.consts
           /\ variable_symbol_sizes' = r.sizes
           /\ np_printoptions' = [precision |-> r.precision, threshold |-> r.threshold]
    /\ stack' = Pop
    /\ visits' = Visit(nodes[Top.n].id)
    /\ UNCHANGED <<pc, calls, args, nodes, root, variable_symbols, emission, julia_str,
                   err, rules, watch, prev>>

\* lines 110-118: the recursive call for the next child
FindSymbolsChild ==
    /\ UNCHANGED mesh
    /\ pc = "lower" /\ stack # <<>>
    /\ ~is_constant_and_can_evaluate(nodes, Top.n)
    /\ Top.k <= Len(nodes[Top.n].ch)
    /\ stack' = Append([stack EXCEPT ![Len(stack)].k = Top.k + 1],
                       [n |-> nodes[Top.n].ch[Top.k], k |-> 1])
    /\ UNCHANGED <<pc, calls, args, nodes, root, tables, np_printoptions, emission,
                   julia_str, err, ghosts>>

\* lines 120-261: the instruction of the node and its size, or an exception
FindSymbolsNode ==
    /\ UNCHANGED mesh
    /\ pc = "lower" /\ stack # <<>>
    /\ ~is_constant_and_can_evaluate(nodes, Top.n)
    /\ Top.k > Len(nodes[Top.n].ch)
    /\ LET nd == nodes[Top.n]
           r  == SymbolStr(nd, children_vars(nodes, nd), variable_symbol_sizes)
       IN  IF r.err # ""
           THEN /\ pc' = "error"
                /\ err' = ErrorText(r.err, nd)
                /\ UNCHANGED <<stack, variable_symbols, variable_symbol_sizes>>
           ELSE /\ variable_symbols' = DictSet(variable_symbols, nd.id, r.str)
                /\ variable_symbol_sizes' = DictSet(variable_symbol_sizes, nd.id, NodeSize(nd))
                /\ stack' = Pop
                /\ UNCHANGED <<pc, err>>
    /\ visits' = Visit(nodes[Top.n].id)
    /\ UNCHANGED <<calls, args, nodes, root, constant_symbols, np_printoptions, emission,
                   julia_str, rules, watch, prev>>

(***************************************************************************)
(* get_julia_function after to_julia returned                              *)
(***************************************************************************)
\* lines 357-371
ExtractConstants ==
    /\ UNCHANGED mesh
    /\ pc = "lower" /\ stack = <<>>
    /\ const_and_cache_str' = "cs = (\n" \o
            ConstLines(constant_symbols, 1, np_printoptions.precision)
    /\ shorter_const_names' = ShorterConstNames(constant_symbols)
    /\ var_str' = "" /\ input_parameters' = <<>>
    /\ pc' = "emit"
    /\ UNCHANGED <<calls, args, nodes, root, stack, tables, np_printoptions, julia_str,
                   err, ghosts>>

\* lines 372-456: one turn of the while loop
EmitStep ==
    /\ UNCHANGED mesh
    /\ pc = "emit" /\ variable_symbols # <<>>
    /\ LET r == EmitTurn(variable_symbols, var_str, input_parameters, preallocate,
                         nodes[root].id)
       IN  /\ rules' = Append(rules, <<variable_symbols[1][1], r.rule>>)
           /\ IF r.err # ""
              THEN /\ pc' = "error" /\ err' = r.err
                   /\ UNCHANGED <<variable_symbols, var_str, input_parameters>>
              ELSE /\ variable_symbols' = r.table
                   /\ var_str' = r.text
                   /\ input_parameters' = r.inputs
                   /\ UNCHANGED <<pc, err>>
    /\ UNCHANGED <<calls, args, nodes, root, stack, constant_symbols, variable_symbol_sizes,
                   np_printoptions, const_and_cache_str, shorter_const_names, julia_str,
                   visits, watch, prev>>

\* lines 457-489: the loop is over; names are replaced in the text
Rename ==
    /\ UNCHANGED mesh
    /\ pc = "emit" /\ variable_symbols = <<>>
    /\ LET r == RenamePasses(var_str, const_and_cache_str, input_parameters,
                             variable_symbol_sizes, shorter_const_names, preallocate,
                             nodes[root].id)
       IN  /\ var_str' = r.text
           /\ const_and_cache_str' = r.cc
    /\ pc' = "assemble"
    /\ UNCHANGED <<calls, args, nodes, root, stack, tables, np_printoptions,
                   shorter_const_names, input_parameters, julia_str, err, ghosts>>

\* lines 491-565: the procedure is put together and returned
Assemble ==
    /\ UNCHANGED mesh
    /\ pc = "assemble"
    /\ julia_str' = Assembled(var_str, const_and_cache_str, nodes, root,
                              shorter_const_names, typ, preallocate, funcname,
                              Catalogue[dag].order)
    /\ pc' = "done"
    /\ UNCHANGED <<calls, args, nodes, root, stack, tables, np_printoptions, emission,
                   err, ghosts>>

\* the call is over: its locals are gone, the print options of the process stay
Return ==
    /\ UNCHANGED mesh
    /\ pc \in {"done", "error"}
    /\ pc' = "idle"
    /\ watch' = IF pc = "done" THEN [key |-> args, text |-> julia_str] ELSE NoWatch
    /\ prev' = ""
    /\ dag' = 0 /\ preallocate' = FALSE /\ len_rhs' = None /\ round_constants' = FALSE
    /\ nodes' = <<>> /\ root' = 0 /\ stack' = <<>>
    /\ constant_symbols' = <<>> /\ variable_symbols' = <<>> /\ variable_symbol_sizes' = <<>>
    /\ const_and_cache_str' = "" /\ shorter_const_names' = <<>> /\ var_str' = ""
    /\ input_parameters' = <<>>
    /\ julia_str' = "" /\ err' = ""
    /\ visits' = <<>> /\ rules' = <<>>
    /\ UNCHANGED <<calls, np_printoptions>>

CallAny ==
    \E d \in 1..Len(Catalogue), pre \in BOOLEAN, lr \in {None} \cup 0..MaxLenRhs,
       rc \in BOOLEAN : Call(d, pre, lr, rc)

\* one call of get_julia_function in a fresh process
Next ==
    \/ CallAny
    \/ FindSymbolsConstant
    \/ FindSymbolsChild
    \/ FindSymbolsNode
    \/ ExtractConstants
    \/ EmitStep
    \/ Rename
    \/ Assemble

Spec == Init /\ [][Next]_vars

\* a process that calls get_julia_function again and again
NextProcess ==
    \/ Next
    \/ Return

SpecProcess == Init /\ [][NextProcess]_vars

(***************************************************************************)
(* meshes/scikit_fem_submeshes.py: GetUserSupplied2DSubMesh and            *)
(* UserSupplied2DSubMesh                                                   *)
(***************************************************************************)
\* the largest coordinate of an edge and the largest npts of the model
MaxCoord == 3
MaxNpts == 4

\* the elements of a set of numbers as an ascending sequence
RECURSIVE Ascending(_)
Ascending(S) ==
    IF S = {} THEN <<>> ELSE <<SetMin(S)>> \o Ascending(S \ {SetMin(S)})

\* the edge vectors a user supplies: two or more ascending coordinates
EdgeVectors == {Ascending(S) : S \in {T \in SUBSET (0..MaxCoord) : Cardinality(T) >= 2}}

\* a spatial variable and its entry of lims
SpatialVariable(name, id, coord_sys, min, max) ==
    [name |-> name, id |-> id, coord_sys |-> coord_sys, min |-> min, max |-> max]

\* the dictionaries lims a caller passes, as their keys in insertion order
LimsChoices ==
    {<<SpatialVariable("y", 1, "cartesian", 0, 2), SpatialVariable("z", 2, "cartesian", 0, 3)>>,
     <<SpatialVariable("y", 1, "cartesian", 0, 2), SpatialVariable("z", 2, "polar", 0, 3)>>,
     <<SpatialVariable("y", 1, "cartesian", 0, 2)>>}

\* lines 29-34 of ScikitSubMesh2D.__init__: the nodes and the number of points
SubMesh2D(edges) ==
    [n_nodes |-> [v \in {"y", "z"} |-> Len(edges[v]) - 1],
     npts    |-> Len(edges["y"]) * Len(edges["z"])]

\* lines 373-399: the first check that fails for the variable, "" for none
CheckEdges(var, npts, edges) ==
    IF npts[var.id] # Len(edges[var.name]) THEN "GeometryError: length"
    ELSE IF edges[var.name][1] # var.min THEN "GeometryError: first entry"
    ELSE IF edges[var.name][Len(edges[var.name])] # var.max
    THEN "GeometryError: last entry"
    ELSE ""

\* lines 349-401: the exception UserSupplied2DSubMesh.__init__ raises, "" for none
SubMeshError(lims, npts, edges) ==
    IF Len(lims) # 2 THEN "GeometryError: lims"
    ELSE IF lims[1].coord_sys # lims[2].coord_sys THEN "DomainError"
    ELSE LET bad == {k \in 1..2 : CheckEdges(lims[k], npts, edges) # ""}
         IN  IF bad = {} THEN "" ELSE CheckEdges(lims[SetMin(bad)], npts, edges)

\* lines 419-421: GetUserSupplied2DSubMesh(y_edges, z_edges)
GetUserSupplied2DSubMesh(y_edges, z_edges) ==
    /\ mesh.at = "none"
    /\ mesh' = [at |-> "generator", edges |-> [v \in {"y", "z"} |->
                                                  IF v = "y" THEN y_edges ELSE z_edges]]
    /\ UNCHANGED compiler

\* lines 423-424 and 349-401: the generator is called and builds the submesh
UserSupplied2DSubMesh(lims, npts) ==
    /\ mesh.at = "generator"
    /\ LET e == SubMeshError(lims, npts, mesh.edges)
       IN  mesh' = [at |-> IF e = "" THEN "built" ELSE "error",
                    edges |-> mesh.edges, lims |-> lims, npts |-> npts, err |-> e,
                    submesh |-> IF e = "" THEN SubMesh2D(mesh.edges)
                                ELSE [n_nodes |-> [v \in {"y", "z"} |-> 0], npts |-> 0]]
    /\ UNCHANGED compiler

MakeGenerator ==
    \E y_edges \in EdgeVectors, z_edges \in EdgeVectors :
        GetUserSupplied2DSubMesh(y_edges, z_edges)

CallGenerator ==
    \E lims \in LimsChoices, ny \in 1..MaxNpts, nz \in 1..MaxNpts :
        UserSupplied2DSubMesh(lims, [id \in {1, 2} |-> IF id = 1 THEN ny ELSE nz])

NextMesh ==
    \/ MakeGenerator
    \/ CallGenerator

SpecMesh == Init /\ [][NextMesh]_vars

(***************************************************************************)
(* Reading the emitted text: lines, statements, names                      *)
(***************************************************************************)
LStrip(s) ==
    LET idx == {i \in 1..Len(s) : SubSeq(s, i, i) # " "}
    IN  IF idx = {} THEN "" ELSE SubSeq(s, SetMin(idx), Len(s))

\* the assigned names and the operand text of a line of Julia:
\* "mul!(X, A, B)", "X .= rhs", "@. X[a:b] = rhs", "X = rhs", "a, b = p"
Stmt(line) ==
    LET l    == LStrip(line)
        body == IF StartsWith(l, "@. ") THEN SubSeq(l, 4, Len(l)) ELSE l
        e    == FindFrom(body, " = ", 1)
        d    == FindFrom(body, " .= ", 1)
        c    == FindFrom(l, ", ", 1)
    IN  IF StartsWith(l, "mul!(") /\ c > 0
        THEN [targets |-> <<SubSeq(l, 6, c - 1)>>, rhs |-> SubSeq(l, c + 2, Len(l))]
        ELSE IF d > 0 /\ (e = 0 \/ d < e)
        THEN [targets |-> <<SubSeq(body, 1, d - 1)>>,
              rhs |-> SubSeq(body, d + 4, Len(body))]
        ELSE IF e > 0
        THEN [targets |-> Split(SubSeq(body, 1, e - 1), ", "),
              rhs |-> SubSeq(body, e + 3, Len(body))]
        ELSE [targets |-> <<>>, rhs |-> ""]

\* the name of an assignment target without its range
BaseName(target) ==
    LET b == FindFrom(target, "[", 1)
    IN  IF b = 0 THEN target ELSE SubSeq(target, 1, b - 1)

TargetNames(line) ==
    {BaseName(Stmt(line).targets[k]) : k \in 1..Len(Stmt(line).targets)}

NameChars ==
    {"a", "b", "c", "d", "e", "f", "g", "h", "i", "j", "k", "l", "m", "n", "o", "p",
     "q", "r", "s", "t", "u", "v", "w", "x", "y", "z", "_", ".",
     "0", "1", "2", "3", "4", "5", "6", "7", "8", "9"}

IsNameChar(s, i) == i >= 1 /\ i <= Len(s) /\ SubSeq(s, i, i) \in NameChars

\* the maximal runs of name characters of a text
Tokens(s) ==
    {SubSeq(s, i, CHOOSE j \in i..Len(s) :
                      /\ \A k \in i..j : IsNameChar(s, k)
                      /\ ~IsNameChar(s, j + 1)) :
        i \in {i \in 1..Len(s) : IsNameChar(s, i) /\ ~IsNameChar(s, i - 1)}}

TextLines == Split(julia_str, "\n")

\* the line "function <name>(<parameters>)"
FunctionLineNo ==
    SetMin({k \in 1..Len(TextLines) : StartsWith(TextLines[k], "function ")})

BodyLineNos == (FunctionLineNo + 1)..Len(TextLines)

\* the names the tuple before the function declares, as the body reads them
DeclaredNames ==
    {"cs." \o n : n \in UNION {TargetNames(TextLines[k]) : k \in 1..(FunctionLineNo - 1)}}

AssignedBefore(k) ==
    UNION {TargetNames(TextLines[j]) : j \in (FunctionLineNo + 1)..(k - 1)}

ParameterNames ==
    {nodes[i].name : i \in {i \in DOMAIN nodes : nodes[i].kind = "InputParameter"}}

IsConstName(tok) == StartsWith(tok, "cs.const_") \/ StartsWith(tok, "const_")

\* a cache buffer, a vcat temporary, an input parameter or a parameter not unpacked
IsComputedName(tok) ==
    \/ StartsWith(tok, "cs.cache_") \/ StartsWith(tok, "cache_")
    \/ (Len(tok) >= 2 /\ Head(tok) = "x" /\ AllDigits(Tail(tok)))
    \/ tok \in ParameterNames
    \/ StartsWith(tok, "inputs")

(***************************************************************************)
(* Properties of the lowering (find_symbols)                               *)
(***************************************************************************)
\* the positions of the nodes below position i, i included
RECURSIVE Descendants(_, _)
Descendants(ns, i) ==
    {i} \cup UNION {Descendants(ns, ns[i].ch[k]) : k \in 1..Len(ns[i].ch)}

\* the positions the traversal from the root can reach
Reachable == IF nodes = <<>> THEN {} ELSE Descendants(nodes, root)

NodeOfId(id) == nodes[CHOOSE i \in DOMAIN nodes : nodes[i].id = id]

LoweringDone == pc = "lower" /\ stack = <<>>

Visited == {visits[k][1] : k \in 1..Len(visits)}

PositionOf(d, key) == CHOOSE i \in 1..Len(d) : d[i][1] = key

\* the ids of the children of a node that are variable nodes
VariableChildren(nd) ==
    {nodes[nd.ch[k]].id : k \in {k \in 1..Len(nd.ch) :
                                    ~is_constant_and_can_evaluate(nodes, nd.ch[k])}}

\* C1: two compilations of the same DAG with the same arguments in one process
\* return the same text.
C1_SameTextAgain == (pc = "done" /\ prev # "") => julia_str = prev

\* C2: when the lowering is over, every node whose body of find_symbols ran has its
\* id in exactly one of the constant table and the variable table; scalar constants
\* are in the constant table.
C2_ExactlyOneTable ==
    LoweringDone =>
        \A id \in Visited :
            /\ DictHas(constant_symbols, id) # DictHas(variable_symbols, id)
            /\ is_constant_and_can_evaluate(nodes, CHOOSE i \in DOMAIN nodes :
                                                      nodes[i].id = id)
                  => DictHas(constant_symbols, id)

\* C3: at every moment of the lowering the variable table is in topological order:
\* the entry of every variable child of a node stands before the entry of the node,
\* also when a shared node was lowered more than once.
C3_TopologicalOrder ==
    pc = "lower" =>
        \A k \in 1..Len(variable_symbols) :
            /\ \A c \in VariableChildren(NodeOfId(variable_symbols[k][1])) :
                  /\ DictHas(variable_symbols, c)
                  /\ PositionOf(variable_symbols, c) < k
            /\ \A j \in 1..Len(variable_symbols) :
                  id_to_julia_variable(variable_symbols[j][1], "cache")
                        \in Tokens(variable_symbols[k][2]) => j < k

\* a shared node was lowered twice and stands before both of its parents
C3_Witness ==
    /\ LoweringDone
    /\ Len(variable_symbols) >= 4
    /\ \E id \in Visited :
          /\ DictGet(visits, id) >= 2
          /\ DictHas(variable_symbols, id)
          /\ Cardinality({k \in 1..Len(variable_symbols) :
                 id \in VariableChildren(NodeOfId(variable_symbols[k][1]))}) >= 2

\* C4: when the lowering is over, the size table has an entry for every node whose
\* body of find_symbols ran, constants included, and a scalar-valued node has size 1.
C4_EverySize ==
    LoweringDone =>
        \A id \in Visited :
            /\ DictHas(variable_symbol_sizes, id)
            /\ NodeOfId(id).shape0 = 0 => DictGet(variable_symbol_sizes, id) = 1

(***************************************************************************)
(* Properties of the errors of the lowering                                *)
(***************************************************************************)
\* the mask selects one run of positions without a gap
Contiguous(mask) ==
    \A i, j \in 1..Len(mask) :
        (mask[i] /\ mask[j] /\ i <= j) => \A k \in i..j : mask[k]

GappedStateVector(nd) ==
    nd.kind \in {"StateVector", "StateVectorDot"} /\ ~Contiguous(nd.mask)

\* C9: a StateVector or StateVectorDot whose mask is not one contiguous run is never
\* given an instruction: the call ends in an error at that node.
C9_GappedMaskRejected ==
    \A i \in Reachable :
        (GappedStateVector(nodes[i]) /\ DictHas(visits, nodes[i].id))
            => /\ pc = "error"
               /\ ~DictHas(variable_symbols, nodes[i].id)

\* the kinds find_symbols has an instruction for
HandledKinds ==
    BinaryKinds \cup UnaryKinds
        \cup {"Function", "NumpyConcatenation", "SparseStack", "DomainConcatenation",
              "StateVector", "StateVectorDot", "Time", "InputParameter"}

\* C10: when the instruction of a variable node of a kind without a rule is asked
\* for, the call ends in a NotImplementedError that names the kind, and in no other
\* error.
C10_NotImplementedNamesKind ==
    \A i \in Reachable :
        (/\ nodes[i].kind \notin HandledKinds
         /\ ~is_constant_and_can_evaluate(nodes, i)
         /\ DictHas(visits, nodes[i].id))
            => /\ pc = "error"
               /\ StartsWith(err, "NotImplementedError")
               /\ Contains(err, "." \o nodes[i].kind \o "'>")

(***************************************************************************)
(* Properties of the emitted procedure                                     *)
(***************************************************************************)
\* the ids of the variable nodes that are a child of two or more distinct parents
SharedIds ==
    {nodes[i].id : i \in {i \in Reachable :
        /\ ~is_constant_and_can_evaluate(nodes, i)
        /\ Cardinality({q \in Reachable :
               /\ ~is_constant_and_can_evaluate(nodes, q)
               /\ \E k \in 1..Len(nodes[q].ch) : nodes[q].ch[k] = i}) >= 2}}

EntriesOf(id) == {k \in 1..Len(variable_symbols) : variable_symbols[k][1] = id}

\* the statements written so far that assign the buffer of the node
StatementsOf(id) ==
    LET ls == Split(var_str, "\n")
    IN  {k \in 1..Len(ls) : id_to_julia_variable(id, "cache") \in TargetNames(ls[k])}

\* the assignment targets of line k of the statements written so far, ranges included
TargetsAt(k) ==
    LET st == Stmt(Split(var_str, "\n")[k])
    IN  {st.targets[j] : j \in 1..Len(st.targets)}

\* C5 as claimed: a variable node shared by two or more parents has at most one
\* entry in the variable table at any time, exactly one when the lowering is over,
\* and the emission loop writes at most one statement that assigns its buffer.
C5_SharedNodeOneStatement ==
    \A id \in SharedIds :
        /\ pc \in {"lower", "emit"} => Cardinality(EntriesOf(id)) <= 1
        /\ LoweringDone => Cardinality(EntriesOf(id)) = 1
        /\ pc = "emit" => Cardinality(StatementsOf(id)) <= 1

\* the number of size::child pairs of the instruction of a concatenation (lines
\* 167-225): one for each child, and for a DomainConcatenation of several
\* repetitions one for each (child, domain) pair of each repetition
PairCount(nd) ==
    IF nd.kind = "DomainConcatenation" /\ nd.npts # 1
    THEN nd.npts * Len(DomainEntries(nd.cslices, 1))
    ELSE Len(nd.ch)

\* the bounds lo, hi of the range buffer[lo:hi] that line k assigns
RangeAt(k) ==
    LET target == Stmt(Split(var_str, "\n")[k]).targets[1]
        open   == FindFrom(target, "[", 1)
        colon  == FindFrom(target, ":", 1)
    IN  [lo |-> PyInt(SubSeq(target, open + 1, colon - 1)).val,
         hi |-> PyInt(SubSeq(target, colon + 1, Len(target) - 1)).val]

\* C5 amended: a variable node shared by two or more parents has at most one entry
\* in the variable table at any time, exactly one when the lowering is over, and the
\* emission loop assigns its buffer once: by at most one statement, except that a
\* concatenation emitted with preallocate=True is assigned by at most one slice
\* statement for each size::child pair of its instruction, every statement writing
\* a range that lies behind the ranges of the statements before it.
C5_SharedNodeOnce ==
    \A id \in SharedIds :
        /\ pc \in {"lower", "emit"} => Cardinality(EntriesOf(id)) <= 1
        /\ LoweringDone => Cardinality(EntriesOf(id)) = 1
        /\ pc = "emit" =>
              IF NodeOfId(id).kind \in ConcatenationKinds /\ preallocate
              THEN /\ Cardinality(StatementsOf(id)) <= PairCount(NodeOfId(id))
                   /\ \A k1, k2 \in StatementsOf(id) :
                         k1 < k2 => RangeAt(k1).hi < RangeAt(k2).lo
              ELSE Cardinality(StatementsOf(id)) <= 1

\* the loop is over; a shared DomainConcatenation of several repetitions was lowered
\* twice and, preallocated, is assigned by one slice statement for each pair of its
\* instruction, more statements than it has children
C5_Witness ==
    /\ pc = "emit" /\ variable_symbols = <<>>
    /\ \E id \in SharedIds :
          /\ DictGet(visits, id) >= 2
          /\ NodeOfId(id).kind = "DomainConcatenation"
          /\ preallocate
          /\ Cardinality(StatementsOf(id)) = PairCount(NodeOfId(id))
          /\ Cardinality(StatementsOf(id)) > Len(NodeOfId(id).ch)

\* C6: in the text returned, every constant a statement reads is declared in the
\* tuple before the function, and every cache buffer, vcat temporary and input
\* parameter a statement reads is assigned by a statement earlier in the body.
C6_ReadAfterAssigned ==
    pc = "done" =>
        \A k \in BodyLineNos :
            \A tok \in Tokens(Stmt(TextLines[k]).rhs) :
                /\ IsConstName(tok) => tok \in DeclaredNames
                /\ IsComputedName(tok) => tok \in AssignedBefore(k)

\* C7: the text returned has a statement that assigns the output buffer of the mode,
\* dy for an ODE and out for a DAE, whatever the root is, and the cache name of the
\* root appears nowhere in it.
C7_RootToOutput ==
    pc = "done" =>
        /\ \E k \in BodyLineNos : OutName(typ) \in TargetNames(TextLines[k])
        /\ ~Contains(julia_str, id_to_julia_variable(nodes[root].id, "cache"))

Parameters == IF typ = "ode" THEN "(dy, y, p, t)" ELSE "(out, dy, y, p, t)"

\* C8 as claimed: the name of the function follows from preallocate alone.
C8_NameByFlagAlone ==
    pc = "done" =>
        TextLines[FunctionLineNo] =
            "function " \o funcname
                \o (IF preallocate THEN "_with_consts!" ELSE "!") \o Parameters

\* C8 amended: the function is named <funcname>_with_consts! when preallocate is
\* set and the text declares a tuple of constants and caches, <funcname>! otherwise;
\* the parameters follow from the mode alone.
C8_NameByFlagAndTuple ==
    pc = "done" =>
        TextLines[FunctionLineNo] =
            "function " \o funcname
                \o (IF preallocate /\ Contains(julia_str, "cs = (")
                    THEN "_with_consts!" ELSE "!")
                \o Parameters

\* preallocate is set and there is no tuple; the function is <funcname>!
C8_Witness ==
    /\ pc = "done" /\ preallocate
    /\ ~Contains(julia_str, "cs = (")
    /\ Contains(julia_str, "function " \o funcname \o "!(")

(***************************************************************************)
(* Properties of the residual form of a DAE                                *)
(***************************************************************************)
\* the symbol the caller passed
Passed == Catalogue[dag]
PassedChildren == Passed.nodes[Passed.root].ch

\* child.size summed over the first k children of the symbol passed
RECURSIVE SizeBefore(_)
SizeBefore(k) ==
    IF k = 0 THEN 0
    ELSE SizeBefore(k - 1) + NodeSize(Passed.nodes[PassedChildren[k]])

\* position i holds (child k of the symbol passed) - StateVectorDot over [start, end)
IsResidualOf(i, k) ==
    /\ nodes[i].kind = "Subtraction"
    /\ Len(nodes[i].ch) = 2
    /\ nodes[nodes[i].ch[1]] = Passed.nodes[PassedChildren[k]]
    /\ LET dot == nodes[nodes[i].ch[2]]
       IN  /\ dot.kind = "StateVectorDot"
           /\ {j \in 1..Len(dot.mask) : dot.mask[j]} = (SizeBefore(k - 1) + 1)..SizeBefore(k)

\* C11: with len_rhs given, the k-th child of the new root is the k-th child of the
\* symbol passed minus the StateVectorDot over that child's range [start, end) when
\* its cumulative end is at most len_rhs, and the child itself otherwise, in the
\* original order (when every child stays constant the new root is the constant that
\* stacks their values in that order); with len_rhs None the symbol is left as it is.
C11_ResidualForm ==
    pc # "idle" =>
        IF len_rhs = None
        THEN nodes = Passed.nodes /\ root = Passed.root
        ELSE IF nodes[root].kind = "NumpyConcatenation"
        THEN /\ Len(nodes[root].ch) = Len(PassedChildren)
             /\ \A k \in 1..Len(PassedChildren) :
                   IF SizeBefore(k) <= len_rhs
                   THEN IsResidualOf(nodes[root].ch[k], k)
                   ELSE nodes[nodes[root].ch[k]] = Passed.nodes[PassedChildren[k]]
        ELSE /\ \A k \in 1..Len(PassedChildren) :
                   /\ SizeBefore(k) > len_rhs
                   /\ is_constant_and_can_evaluate(Passed.nodes, PassedChildren[k])
             /\ nodes[root].val.rows = StackRows(Passed.nodes, PassedChildren)

\* the first child lies inside the differential part and the second beyond it
C11_Witness ==
    /\ LoweringDone
    /\ len_rhs # None
    /\ Len(PassedChildren) = 2
    /\ SizeBefore(1) > 0
    /\ SizeBefore(1) <= len_rhs /\ SizeBefore(2) > len_rhs
    /\ IsResidualOf(nodes[root].ch[1], 1)

(***************************************************************************)
(* Properties of the lowering of a DomainConcatenation                     *)
(***************************************************************************)
\* the "size::reference" pairs of a concatenation line "[..., ...]"
PairsOf(line) == Split(Slice(line, 1, Len(line) - 1), ", ")

\* the window of a (child, domain) entry in repetition i, as the line writes it
WindowText(nd, entry, i) ==
    ToString(entry[3][i][2] - entry[3][i][1]) \o "::@view "
        \o ChildVar(nodes, nd.ch[entry[1]])
        \o "[" \o ToString(entry[3][i][1] + 1) \o ":" \o ToString(entry[3][i][2]) \o "]"

\* the start of the slice of the entry's domain in repetition i
StartOf(nd, entry, i) == DictGet(nd.slices, entry[2])[i][1]

\* the pairs of the line are, repetition after repetition, the windows of that
\* repetition in ascending order of their slice start in that repetition
SortedInEveryRepetition(nd, line) ==
    LET entries == DomainEntries(nd.cslices, 1)
        n       == Len(entries)
        pairs   == PairsOf(line)
    IN  /\ Len(pairs) = nd.npts * n
        /\ \A i \in 1..nd.npts :
              /\ {pairs[(i - 1) * n + r] : r \in 1..n}
                    = {WindowText(nd, entries[e], i) : e \in 1..n}
              /\ \A e1, e2 \in 1..n : \A r1, r2 \in 1..n :
                    (/\ pairs[(i - 1) * n + r1] = WindowText(nd, entries[e1], i)
                     /\ pairs[(i - 1) * n + r2] = WindowText(nd, entries[e2], i)
                     /\ StartOf(nd, entries[e1], i) < StartOf(nd, entries[e2], i))
                        => r1 < r2

\* the pairs of the line are the children in declaration order, without a window
DeclarationOrder(nd, line) ==
    LET pairs == PairsOf(line)
    IN  /\ Len(pairs) = Len(nd.ch)
        /\ \A k \in 1..Len(nd.ch) :
              pairs[k] = ToString(NodeSize(nodes[nd.ch[k]])) \o "::"
                            \o ChildVar(nodes, nd.ch[k])

\* C12: the line of a DomainConcatenation of more than one repetition lists, for
\* each repetition in index order, the windows of the children in ascending order
\* of their slice start in that repetition; with one repetition it lists the
\* children in declaration order, unsorted and without windows.
C12_DomainOrder ==
    pc = "lower" =>
        \A k \in 1..Len(variable_symbols) :
            LET nd == NodeOfId(variable_symbols[k][1])
            IN  nd.kind = "DomainConcatenation" =>
                    IF nd.npts > 1
                    THEN SortedInEveryRepetition(nd, variable_symbols[k][2])
                    ELSE DeclarationOrder(nd, variable_symbols[k][2])

(***************************************************************************)
(* Properties of UserSupplied2DSubMesh                                     *)
(***************************************************************************)
\* the call passed the checks on lims, the coordinate systems and the end points
EndsAgree ==
    /\ Len(mesh.lims) = 2
    /\ mesh.lims[1].coord_sys = mesh.lims[2].coord_sys
    /\ \A k \in 1..2 :
          LET e == mesh.edges[mesh.lims[k].name]
          IN  e[1] = mesh.lims[k].min /\ e[Len(e)] = mesh.lims[k].max

\* C13: a call whose lims and end points are in order builds the submesh when every
\* edge vector has npts + 1 entries, and raises GeometryError when an edge vector
\* has any other length.
C13_EdgesOneMoreThanNpts ==
    (mesh.at \in {"built", "error"} /\ EndsAgree) =>
        IF \A k \in 1..2 :
              Len(mesh.edges[mesh.lims[k].name]) = mesh.npts[mesh.lims[k].id] + 1
        THEN mesh.at = "built"
        ELSE mesh.at = "error" /\ StartsWith(mesh.err, "GeometryError")

(***************************************************************************)
(* Properties of the traversal                                             *)
(***************************************************************************)
RECURSIVE SumOfVisits(_)
SumOfVisits(k) == IF k = 0 THEN 0 ELSE SumOfVisits(k - 1) + visits[k][2]

\* C14: during one call the body of find_symbols runs at most once for every node
\* id, also for a node that is a child of several parents, so the number of
\* lowering steps is at most the number of distinct nodes.
C14_LoweredOnce ==
    pc = "lower" =>
        /\ \A k \in 1..Len(visits) : visits[k][2] <= 1
        /\ SumOfVisits(Len(visits)) <= Cardinality({nodes[i].id : i \in Reachable})

(***************************************************************************)
(* Properties of the emission loop                                         *)
(***************************************************************************)
\* the ids of the variable table in the order the lowering inserted them
VariableOrder ==
    SelectSeq(DictKeys(visits),
              LAMBDA id : ~is_constant_and_can_evaluate(nodes,
                               CHOOSE i \in DOMAIN nodes : nodes[i].id = id))

SixRules == {"concatenation", "matmul", "input", "reduction", "inline", "assign"}

\* the loop has started: it runs, it is over, or it was left by an exception
InEmission == pc \in {"emit", "assemble", "done"} \/ (pc = "error" /\ stack = <<>>)

\* C15: the entries the loop has handled, followed by the entries still in the
\* table, are the entries of the lowering in insertion order (each removed once,
\* from the front, none inserted); each was handled by one of the six rules; the
\* loop is never left early, and it ends with the table empty after as many turns
\* as the table had entries.
C15_EmissionLoop ==
    /\ InEmission =>
          /\ [r \in 1..Len(rules) |-> rules[r][1]] \o DictKeys(variable_symbols)
                = VariableOrder
          /\ \A r \in 1..Len(rules) : rules[r][2] \in SixRules
    /\ ~(pc = "error" /\ stack = <<>>)
    /\ pc \in {"assemble", "done"} =>
          variable_symbols = <<>> /\ Len(rules) = Len(VariableOrder)

\* the kinds whose line has one of the forms that may be inlined: a view of the
\* state, a sum, a difference (or a negation), a product, a quotient, the time
InlineForms ==
    {"StateVector", "StateVectorDot", "Addition", "Subtraction", "Negate",
     "Multiplication", "Inner", "Division", "Time"}

\* the kinds the elementwise rules (inline or assign) are left with otherwise
OtherForms == {"Function", "Power", "Index", "AbsoluteValue"}

\* C16: a turn of the loop inlines a line only when the line has one of the forms
\* that may be inlined; the line of a function call, a power or an index is given
\* its own buffer by an assignment, whatever its operands were replaced by.
C16_InlineByForm ==
    \A r \in 1..Len(rules) :
        LET kind == NodeOfId(rules[r][1]).kind
        IN  /\ rules[r][2] = "inline" => kind \in InlineForms
            /\ kind \in OtherForms => rules[r][2] = "assign"

\* the kinds whose line is a pure view of the state
ViewKinds == {"StateVector", "StateVectorDot"}

\* the kinds whose line cannot take inlined text: a matrix product, a min, a max
NonInlineableKinds == {"MatrixMultiplication", "Minimum", "Maximum"}

\* the ids of the variable nodes that are an operand of a non-inlineable consumer
\* and are not a pure view
ProtectedOperands ==
    UNION {{id \in VariableChildren(nodes[i]) : NodeOfId(id).kind \notin ViewKinds} :
           i \in {i \in Reachable : nodes[i].kind \in NonInlineableKinds}}

\* C17: the line of an operand of a matrix product, of a min or of a max that is
\* not a pure view is never inlined by a turn of the loop.
C17_OperandsMaterialized ==
    \A r \in 1..Len(rules) :
        rules[r][1] \in ProtectedOperands => rules[r][2] # "inline"

\* C18: the line of an elementwise min or max is handled by the reduction rule of
\* the loop, and no line of the text that calls min or max is a broadcast
\* assignment.
C18_ReductionRule ==
    /\ \A r \in 1..Len(rules) :
           NodeOfId(rules[r][1]).kind \in {"Minimum", "Maximum"}
           => rules[r][2] = "reduction"
    /\ \A k \in 1..Len(TextLines) :
           Contains(TextLines[k], "min(") \/ Contains(TextLines[k], "max(")
           => ~StartsWith(LStrip(TextLines[k]), "@.")

\* the turns of the loop that took a concatenation line to write slice assignments
SliceTurns ==
    {r \in 1..Len(rules) :
        /\ rules[r][2] = "concatenation"
        /\ preallocate \/ rules[r][1] = nodes[root].id
        /\ NodeOfId(rules[r][1]).kind \in {"NumpyConcatenation", "SparseStack"}}

\* the sizes of the first k children of a node, summed
RECURSIVE SizeOfFirst(_, _)
SizeOfFirst(nd, k) ==
    IF k = 0 THEN 0 ELSE SizeOfFirst(nd, k - 1) + NodeSize(nodes[nd.ch[k]])

\* the range of the buffer of a concatenation that its k-th child is assigned to
SliceOf(id, k) ==
    id_to_julia_variable(id, "cache") \o "["
        \o ToString(SizeOfFirst(NodeOfId(id), k - 1) + 1) \o ":"
        \o ToString(SizeOfFirst(NodeOfId(id), k)) \o "]"

\* C19: the turn of the loop that takes the line of a concatenation of n children,
\* while preallocating or for the root, has written exactly n statements that
\* assign its buffer, one after the other, the k-th assigning the range that
\* starts behind the sizes of the children before it and has the size of the k-th
\* child; the turn does so whatever was inlined into the line before.
C19_SliceAssignments ==
    pc = "emit" \/ (pc = "error" /\ stack = <<>>) =>
        \A r \in SliceTurns :
            LET id == rules[r][1]
                n  == Len(NodeOfId(id).ch)
            IN  /\ Cardinality(StatementsOf(id)) = n
                /\ \E b \in 0..Len(Split(var_str, "\n")) :
                       \A k \in 1..n : /\ b + k \in StatementsOf(id)
                                       /\ TargetsAt(b + k) = {SliceOf(id, k)}

\* the positions of the text where a number goes on for more than d decimals
LongFractions(text, d) ==
    {i \in 1..(Len(text) - d - 1) :
        /\ SubSeq(text, i, i) = "."
        /\ \A j \in 1..(d + 1) : IsDigit(SubSeq(text, i + j, i + j))}

\* the scalar constants the traversal meets
ScalarLeaves == {i \in Reachable : nodes[i].kind = "Scalar"}

\* C20: in the text returned with round_constants on, no number has more than 11
\* decimals, and every scalar constant is written as its value rounded to 11
\* decimals; with round_constants off every scalar constant is written as its
\* value, unrounded.
C20_RoundedConstants ==
    pc = "done" /\ err = "" =>
        /\ round_constants => LongFractions(julia_str, RoundDecimals) = {}
        /\ \A i \in ScalarLeaves :
              Contains(julia_str,
                       PyStrFloat(IF round_constants
                                  THEN RoundDec(nodes[i].val.num, RoundDecimals)
                                  ELSE nodes[i].val.num))

\* the names id_to_julia_variable gives the identities of the nodes
NodeNames ==
    {id_to_julia_variable(nodes[i].id, prefix) : i \in DOMAIN nodes,
                                                 prefix \in {"const", "cache"}}

\* the references to a constant or to a cache buffer that a text holds
References(text) ==
    {tok \in Tokens(text) : StartsWith(tok, "const_") \/ StartsWith(tok, "cache_")}

\* C21: the names of two distinct identities are different and neither is a part
\* of the other, and while the loop inlines lines into later lines every reference
\* in the variable table and in the statements written is still the name of a node.
C21_NamesUnambiguous ==
    /\ \A i, j \in DOMAIN nodes :
          nodes[i].id # nodes[j].id =>
              \A prefix \in {"const", "cache"} :
                  ~Contains(id_to_julia_variable(nodes[j].id, prefix),
                            id_to_julia_variable(nodes[i].id, prefix))
    /\ pc = "emit" =>
          /\ References(var_str) \subseteq NodeNames
          /\ \A k \in 1..Len(variable_symbols) :
                References(variable_symbols[k][2]) \subseteq NodeNames

\* a NumpyConcatenation, a SparseStack or a DomainConcatenation of one repetition
IsPlainConcatenation(nd) ==
    \/ nd.kind \in {"NumpyConcatenation", "SparseStack"}
    \/ nd.kind = "DomainConcatenation" /\ nd.npts = 1

\* C22: the lowering of a plain concatenation whose children were lowered raises no
\* exception, and its line in the variable table is the bracketed list of one
\* size::reference pair per child, the size being the size of the child.
C22_ConcatenationLowered ==
    /\ ~(/\ pc = "error" /\ stack # <<>>
         /\ IsPlainConcatenation(nodes[stack[Len(stack)].n]))
    /\ pc = "lower" =>
          \A k \in 1..Len(variable_symbols) :
              LET nd == NodeOfId(variable_symbols[k][1])
              IN  IsPlainConcatenation(nd) =>
                    variable_symbols[k][2] =
                        PairList(children_vars(nodes, nd),
                                 [c \in 1..Len(nd.ch) |-> NodeSize(nodes[nd.ch[c]])])

====
